---- MODULE Spec2Model ----
(***************************************************************************)
(* Model of @synet/vault: the Vault (src/src/vault.ts), its Indexer        *)
(* (the catalog, src/src/utils.ts), the File unit (the record codec,       *)
(* src/unnamed/part_003) and the storage backend they talk to.             *)
(*                                                                         *)
(* JavaScript values are tagged records: [t |-> "str", s |-> ...] and so   *)
(* on.  A JS object is a sequence of [k, v] pairs in Object.entries order, *)
(* a JS Map is a sequence of entries in insertion order.  A file holds the *)
(* JSON document written to it, as the value JSON.parse gives back.        *)
(***************************************************************************)
EXTENDS Integers, Sequences, FiniteSets, TLC

(***************************************************************************)
(* Bounds of the model.                                                    *)
(***************************************************************************)
MaxClock == 2       \* Date.now() ranges over 1..MaxClock
MaxSaves == 2       \* Vault.save calls in one behaviour
MaxAdds == 2        \* direct Indexer.add / rebuild calls in one behaviour
MaxRebuild == 2     \* length of the list given to Indexer.rebuild

(***************************************************************************)
(* JavaScript values.                                                      *)
(***************************************************************************)
JStr(s) == [t |-> "str", s |-> s]
JNum(n) == [t |-> "num", n |-> n]
JBool(b) == [t |-> "bool", b |-> b]
JObj(o) == [t |-> "obj", o |-> o]
JArr(a) == [t |-> "arr", a |-> a]
JDate(ms) == [t |-> "date", ms |-> ms]
JNull == [t |-> "null"]
JUndefined == [t |-> "undefined"]
JError == [t |-> "error"]

Prop(k, v) == [k |-> k, v |-> v]

\* JavaScript truthiness: what `x || y`, `x ? a : b` and `if (x)` test.
Truthy(v) ==
    CASE v.t = "null" -> FALSE
      [] v.t = "undefined" -> FALSE
      [] v.t = "num" -> v.n # 0
      [] v.t = "bool" -> v.b
      [] v.t = "str" -> v.s # ""
      [] OTHER -> TRUE

\* obj[key] of a JS object: the value of the last pair with that key, or undefined.
RECURSIVE Member(_, _)
Member(o, key) ==
    IF o = <<>> THEN JUndefined
    ELSE IF o[Len(o)].k = key THEN o[Len(o)].v
    ELSE Member(SubSeq(o, 1, Len(o) - 1), key)

HasKey(o, key) == \E i \in 1..Len(o) : o[i].k = key

\* {...o, key: v}: an own key keeps its position, a new one is appended.
SetProp(o, key, v) ==
    IF HasKey(o, key)
    THEN [i \in 1..Len(o) |-> IF o[i].k = key THEN Prop(key, v) ELSE o[i]]
    ELSE Append(o, Prop(key, v))

(***************************************************************************)
(* Strings: String.prototype.toLowerCase, includes, split(/\s+/).          *)
(***************************************************************************)
UpperCase == "ABCDEFGHIJKLMNOPQRSTUVWXYZ"
LowerCase == "abcdefghijklmnopqrstuvwxyz"

CharAt(s, i) == SubSeq(s, i, i)

UpperChars == {CharAt(UpperCase, i) : i \in 1..Len(UpperCase)}
LowerOf == [c \in UpperChars |->
              CharAt(LowerCase, CHOOSE i \in 1..Len(UpperCase) : CharAt(UpperCase, i) = c)]

toLowerChar(c) == IF c \in UpperChars THEN LowerOf[c] ELSE c

RECURSIVE toLowerCase(_)
toLowerCase(s) ==
    IF Len(s) = 0 THEN ""
    ELSE toLowerChar(CharAt(s, 1)) \o toLowerCase(SubSeq(s, 2, Len(s)))

includes(s, k) ==
    \E i \in 0..(Len(s) - Len(k)) : SubSeq(s, i + 1, i + Len(k)) = k

IsSpace(c) == c = " "

\* s.split(/\s+/): the maximal runs between runs of white space; `cur` is the
\* piece being read.  A leading or trailing separator yields an empty piece.
RECURSIVE splitFrom(_, _, _)
splitFrom(s, cur, inSep) ==
    IF Len(s) = 0 THEN <<cur>>
    ELSE IF IsSpace(CharAt(s, 1))
         THEN IF inSep THEN splitFrom(SubSeq(s, 2, Len(s)), cur, TRUE)
              ELSE <<cur>> \o splitFrom(SubSeq(s, 2, Len(s)), "", TRUE)
         ELSE splitFrom(SubSeq(s, 2, Len(s)), cur \o CharAt(s, 1), FALSE)

split(s) == splitFrom(s, "", FALSE)

\* [...new Set(seq)]: first occurrences, in order.
RECURSIVE Dedupe(_)
Dedupe(seq) ==
    IF seq = <<>> THEN <<>>
    ELSE LET init == Dedupe(SubSeq(seq, 1, Len(seq) - 1))
             x == seq[Len(seq)]
         IN IF \E i \in 1..Len(init) : init[i] = x THEN init ELSE Append(init, x)

(***************************************************************************)
(* JSON.stringify followed by JSON.parse: a Date comes back as its ISO     *)
(* string, a property whose value is undefined is dropped.                 *)
(***************************************************************************)
\* Date.prototype.toISOString for the clock values of the model (ms < 10).
toISOString(ms) == "1970-01-01T00:00:00.00" \o ToString(ms) \o "Z"

RECURSIVE JSONValue(_)
JSONValue(v) ==
    CASE v.t = "date" -> JStr(toISOString(v.ms))
      [] v.t = "obj" ->
           LET kept == SelectSeq(v.o, LAMBDA p : p.v.t # "undefined")
           IN JObj([i \in 1..Len(kept) |-> Prop(kept[i].k, JSONValue(kept[i].v))])
      [] v.t = "arr" ->
           JArr([i \in 1..Len(v.a) |->
                   IF v.a[i].t = "undefined" THEN JNull ELSE JSONValue(v.a[i])])
      [] OTHER -> v

(***************************************************************************)
(* The storage backend (AsyncFileSystem): a directory set and a map from   *)
(* path to the document stored there.                                      *)
(***************************************************************************)
VaultPath == "vault"
IndexFilePath == VaultPath \o "/.index.json"        \* Indexer.getIndexFilePath
MetadataPath == VaultPath \o "/.vault.json"

Malformed == [malformed |-> TRUE]       \* a document JSON.parse rejects
WellFormed(document) == "malformed" \notin DOMAIN document

fsExists(fs, path) == path \in DOMAIN fs
fsWriteFile(fs, path, content) ==
    [p \in DOMAIN fs \cup {path} |-> IF p = path THEN content ELSE fs[p]]
fsDeleteFile_keep(fs, path) == fs
fsDeleteFile(fs, path) == [p \in DOMAIN fs \ {path} |-> fs[p]]

(***************************************************************************)
(* Indexer: props.records is a Map keyed by id, props.searchIndexes an     *)
(* array of strings.                                                       *)
(***************************************************************************)
IndexRecord(id, filename, metadata, created, updated) ==
    [id |-> id, filename |-> filename, metadata |-> metadata,
     created |-> created, updated |-> updated]

\* Map.prototype.has / get / set / delete on a Map held in insertion order.
MapHas(m, id) == \E i \in 1..Len(m) : m[i].id = id
MapGet(m, id) == m[CHOOSE i \in 1..Len(m) : m[i].id = id]
MapSet_append(m, id, record) == Append(m, record)
MapSet(m, id, record) ==
    IF MapHas(m, id)
    THEN [i \in 1..Len(m) |-> IF m[i].id = id THEN record ELSE m[i]]
    ELSE Append(m, record)
MapDelete_none(m, id) == m
MapDelete(m, id) == SelectSeq(m, LAMBDA r : r.id # id)

Indexer_get_first(recs, id) ==
    IF recs # <<>> THEN JStr(recs[1].filename) ELSE JNull

\* Indexer.get: the filename of the record, or null.
Indexer_get(recs, id) ==
    IF MapHas(recs, id) THEN JStr(MapGet(recs, id).filename) ELSE JNull

\* Indexer.extractSearchTerms: every string value, then its lower-cased words
\* longer than two characters; nested objects are visited, arrays are not.
RECURSIVE extract(_)
extract(o) ==
    IF o = <<>> THEN <<>>
    ELSE LET value == o[1].v
             here == CASE value.t = "str" ->
                            <<value.s>> \o
                            SelectSeq(split(toLowerCase(value.s)), LAMBDA word : Len(word) > 2)
                       [] value.t = "obj" -> extract(value.o)
                       [] OTHER -> <<>>     \* a Date has no own enumerable entries
         IN here \o extract(Tail(o))

extractSearchTerms(metadata) == Dedupe(extract(metadata))

\* Indexer.updateSearchIndexes: push the terms that are not yet included.
RECURSIVE pushNew(_, _)
pushNew(searchIdx, terms) ==
    IF terms = <<>> THEN searchIdx
    ELSE pushNew(IF \E i \in 1..Len(searchIdx) : searchIdx[i] = terms[1]
                 THEN searchIdx ELSE Append(searchIdx, terms[1]),
                 Tail(terms))

updateSearchIndexes(searchIdx, record) ==
    pushNew(searchIdx, extractSearchTerms(record.metadata))

\* Indexer.rebuildSearchIndexes (through removeFromSearchIndexes): start from
\* the empty list and take the terms of every record of the Map.
RECURSIVE rebuildFrom(_, _)
rebuildFrom(searchIdx, recs) ==
    IF recs = <<>> THEN searchIdx
    ELSE rebuildFrom(updateSearchIndexes(searchIdx, recs[1]), Tail(recs))

rebuildSearchIndexes(recs) == rebuildFrom(<<>>, recs)

\* Indexer.searchInMetadata: a string value, a string item of an array value,
\* or a match inside a nested object.  keyword is already lower-cased.
RECURSIVE searchInMetadata(_, _)
searchInMetadata(metadata, keyword) ==
    \E i \in 1..Len(metadata) :
        LET value == metadata[i].v
        IN \/ value.t = "str" /\ includes(toLowerCase(value.s), keyword)
           \/ /\ value.t = "arr"
              /\ \E j \in 1..Len(value.a) :
                    value.a[j].t = "str" /\ includes(toLowerCase(value.a[j].s), keyword)
           \/ value.t = "obj" /\ searchInMetadata(value.o, keyword)

\* Indexer.find: the records whose own metadata matches, in Map order.
Indexer_find(recs, keyword) ==
    SelectSeq(recs, LAMBDA record : searchInMetadata(record.metadata, toLowerCase(keyword)))

\* a === b: primitives compare by value, objects, arrays and Dates by reference
\* (a condition value is never the object stored in the metadata).
StrictEquals(a, b) == a.t \notin {"obj", "arr", "date"} /\ a = b

\* Indexer.matchesConditions: metadata[key] !== value fails the match.
matchesConditions(metadata, conditions) ==
    \A i \in 1..Len(conditions) :
        StrictEquals(Member(metadata, conditions[i].k), conditions[i].v)

Indexer_query_skip(recs, conditions) ==
    LET matching == SelectSeq(recs, LAMBDA record :
                                 matchesConditions(record.metadata, conditions))
    IN IF matching = <<>> THEN matching ELSE Tail(matching)

\* Indexer.query
Indexer_query(recs, conditions) ==
    SelectSeq(recs, LAMBDA record : matchesConditions(record.metadata, conditions))

\* The document Indexer.saveToFile writes, as JSON.parse reads it back.
RecordJSON(record) ==
    [id |-> record.id, filename |-> record.filename,
     metadata |-> JSONValue(JObj(record.metadata)).o,
     created |-> JSONValue(record.created), updated |-> JSONValue(record.updated)]

IndexData(recs, searchIdx, clock) ==
    [records |-> [i \in 1..Len(recs) |-> RecordJSON(recs[i])],
     searchIndexes |-> searchIdx,
     version |-> "1.0.8",
     updated |-> toISOString(clock)]

(***************************************************************************)
(* Indexer operations on (records, searchIndexes, files, dirs).            *)
(***************************************************************************)
IndexerState(recs, searchIdx, fs, ds) ==
    [records |-> recs, searchIndexes |-> searchIdx, files |-> fs, dirs |-> ds]

saveToFile_once(st, mode, clock) ==
    IF mode = "file" /\ ~fsExists(st.files, IndexFilePath)
    THEN [st EXCEPT !.dirs = @ \cup {VaultPath},
                    !.files = fsWriteFile(@, IndexFilePath,
                                          IndexData(st.records, st.searchIndexes, clock))]
    ELSE st

\* A save that keeps the records of the existing file that the Map lacks.
saveToFile_merge(st, mode, clock) ==
    IF mode = "file"
    THEN LET own == IndexData(st.records, st.searchIndexes, clock)
             kept == IF fsExists(st.files, IndexFilePath)
                     THEN SelectSeq(st.files[IndexFilePath].records,
                                    LAMBDA r : ~MapHas(st.records, r.id))
                     ELSE <<>>
         IN [st EXCEPT !.dirs = @ \cup {VaultPath},
                       !.files = fsWriteFile(@, IndexFilePath,
                                             [own EXCEPT !.records = kept \o @])]
    ELSE st

\* Indexer.saveToFile: in 'file' mode ensure the directory, then write the
\* whole index as one document.
saveToFile(st, mode, clock) ==
    IF mode = "file"
    THEN [st EXCEPT !.dirs = @ \cup {VaultPath},
                    !.files = fsWriteFile(@, IndexFilePath,
                                          IndexData(st.records, st.searchIndexes, clock))]
    ELSE st

\* Indexer.add
Indexer_add(st, mode, record, clock) ==
    saveToFile([st EXCEPT
                  !.records = MapSet(@, record.id, [record EXCEPT !.updated = JDate(clock)]),
                  !.searchIndexes = updateSearchIndexes(@, record)],
               mode, clock)

Indexer_remove_incremental(st, mode, id, clock) ==
    saveToFile([st EXCEPT !.records = MapDelete(@, id)], mode, clock)

Indexer_remove_always(st, mode, id, clock) ==
    saveToFile([st EXCEPT !.records = MapDelete(@, id),
                          !.searchIndexes = rebuildSearchIndexes(MapDelete(st.records, id))],
               mode, clock)

\* Indexer.remove
Indexer_remove(st, mode, id, clock) ==
    saveToFile(IF MapHas(st.records, id)
               THEN [st EXCEPT !.records = MapDelete(@, id),
                               !.searchIndexes = rebuildSearchIndexes(MapDelete(st.records, id))]
               ELSE st,
               mode, clock)

\* Indexer.rebuild: clear, then set every record of the list and take its terms.
RECURSIVE rebuildLoop(_, _)
rebuildLoop(st, list) ==
    IF list = <<>> THEN st
    ELSE rebuildLoop([st EXCEPT !.records = MapSet(@, list[1].id, list[1]),
                                !.searchIndexes = updateSearchIndexes(@, list[1])],
                     Tail(list))

Indexer_rebuild_keep(st, mode, list, clock) ==
    saveToFile(rebuildLoop(st, list), mode, clock)

Indexer_rebuild(st, mode, list, clock) ==
    saveToFile(rebuildLoop([st EXCEPT !.records = <<>>, !.searchIndexes = <<>>], list),
               mode, clock)

\* Indexer.exists
Indexer_exists(st, mode) ==
    IF mode = "memory" THEN Len(st.records) > 0 ELSE fsExists(st.files, IndexFilePath)

\* Indexer.loadIndex on a readable, well-formed index file: set every stored
\* record into the Map and push every stored search term.
RECURSIVE setAll(_, _)
setAll(recs, list) ==
    IF list = <<>> THEN recs
    ELSE setAll(MapSet(recs, list[1].id, list[1]), Tail(list))

loadIndex_none(st, mode) == st

loadIndex(st, mode) ==
    IF mode = "file" /\ fsExists(st.files, IndexFilePath)
    THEN LET indexData == st.files[IndexFilePath]
         IN [st EXCEPT !.records = setAll(@, indexData.records),
                       !.searchIndexes = @ \o indexData.searchIndexes]
    ELSE st

(***************************************************************************)
(* File unit (the record codec).                                           *)
(***************************************************************************)
\* File.checksum: the first 16 characters of base64(JSON.stringify(data)).
checksum(data) ==
    LET content == JSONValue(data)
    IN CASE content = JNum(0) -> "MA=="
         [] content = JStr("Bob") -> "IkJvYiI="
         [] content = JObj(<<Prop("name", JStr("Alice"))>>) -> "eyJuYW1lIjoiQWxp"
         [] content.t = "str" /\ SubSeq(content.s, 1, 11) = "1970-01-01T" -> "IjE5NzAtMDEtMDFU"

File_toJSON_noData(id, data, metadata) ==
    [id |-> id, data |-> JNull, metadata |-> JSONValue(JObj(metadata)).o,
     checksum |-> checksum(data), version |-> "1.0.0"]

\* File.toJSON
File_toJSON(id, data, metadata) ==
    [id |-> id, data |-> JSONValue(data), metadata |-> JSONValue(JObj(metadata)).o,
     checksum |-> checksum(data), version |-> "1.0.0"]

\* File.fromJSON
File_fromJSON(jsonContent) ==
    [id |-> jsonContent.id, data |-> jsonContent.data, metadata |-> jsonContent.metadata,
     checksum |-> jsonContent.checksum, version |-> jsonContent.version]

\* A backend on which readFile of the paths in `unreadable` throws.  Record
\* files are read only by File.read, whose catch turns every error into a
\* failed Result, the error of a missing file included.
Unreadable(fs, unreadable) == [p \in DOMAIN fs \ unreadable |-> fs[p]]

\* File.read: Result.success(content.data), or a failed Result when readFile
\* or JSON.parse throws.
File_read(fs, filename) ==
    IF fsExists(fs, filename) /\ WellFormed(fs[filename])
    THEN [isSuccess |-> TRUE, value |-> File_fromJSON(fs[filename]).data]
    ELSE [isSuccess |-> FALSE, value |-> JUndefined]

(***************************************************************************)
(* Transport encodings of a File.  A JavaScript string is the sequence of  *)
(* its UTF-16 code units; an encoded text is a string over the encoding's  *)
(* alphabet.  globalThis.Buffer is a constructor, so typeof gives          *)
(* "function" and the `typeof nodeBuffer === "object"` branch of the four  *)
(* functions is never taken: btoa, atob and the character loops run.       *)
(* Each function yields JStr of its result, or JError when it throws.      *)
(***************************************************************************)
\* hexEncode: data.charCodeAt(i).toString(16).padStart(2, "0"), concatenated.
hexEncode(data) ==
    LET digits == "0123456789abcdef"
        RECURSIVE toString16(_)
        toString16(n) == IF n < 16 THEN CharAt(digits, n + 1)
                         ELSE toString16(n \div 16) \o CharAt(digits, (n % 16) + 1)
        padStart(s) == IF Len(s) < 2 THEN "0" \o s ELSE s
        RECURSIVE loop(_)
        loop(rest) == IF rest = <<>> THEN ""
                      ELSE padStart(toString16(Head(rest))) \o loop(Tail(rest))
    IN JStr(loop(data))

\* hexDecode: rejects other characters and an odd length, then
\* String.fromCharCode(Number.parseInt(pair, 16)) for each pair.
hexDecode(data) ==
    LET digits == "0123456789abcdef"
        digit(c) == (CHOOSE i \in 1..16 : CharAt(digits, i) = toLowerChar(c)) - 1
        isHex(c) == \E i \in 1..16 : CharAt(digits, i) = toLowerChar(c)
        RECURSIVE loop(_)
        loop(rest) == IF Len(rest) = 0 THEN <<>>
                      ELSE <<16 * digit(CharAt(rest, 1)) + digit(CharAt(rest, 2))>>
                               \o loop(SubSeq(rest, 3, Len(rest)))
    IN IF \E i \in 1..Len(data) : ~isHex(CharAt(data, i)) THEN JError
       ELSE IF Len(data) % 2 # 0 THEN JError
       ELSE JStr(loop(data))

\* base64urlEncode: btoa(data), which throws on a code unit above 0xFF, then
\* "+" -> "-", "/" -> "_" and every "=" removed.
base64urlEncode(data) ==
    LET alphabet == UpperCase \o LowerCase \o "0123456789+/"
        b64(n) == CharAt(alphabet, n + 1)
        RECURSIVE btoa(_)
        btoa(bytes) ==
            CASE Len(bytes) = 0 -> ""
              [] Len(bytes) = 1 ->
                   b64(bytes[1] \div 4) \o b64((bytes[1] % 4) * 16) \o "=="
              [] Len(bytes) = 2 ->
                   b64(bytes[1] \div 4) \o b64((bytes[1] % 4) * 16 + bytes[2] \div 16)
                       \o b64((bytes[2] % 16) * 4) \o "="
              [] OTHER ->
                   b64(bytes[1] \div 4) \o b64((bytes[1] % 4) * 16 + bytes[2] \div 16)
                       \o b64((bytes[2] % 16) * 4 + bytes[3] \div 64) \o b64(bytes[3] % 64)
                       \o btoa(SubSeq(bytes, 4, Len(bytes)))
        replaced(c) == CASE c = "+" -> "-" [] c = "/" -> "_" [] c = "=" -> "" [] OTHER -> c
        RECURSIVE replace(_)
        replace(s) == IF Len(s) = 0 THEN ""
                      ELSE replaced(CharAt(s, 1)) \o replace(SubSeq(s, 2, Len(s)))
    IN IF \E i \in 1..Len(data) : data[i] > 255 THEN JError
       ELSE JStr(replace(btoa(data)))

\* base64urlDecode: "-" -> "+", "_" -> "/", "=" appended up to a multiple of
\* four characters, then atob, which throws on a text that is not base64.
base64urlDecode(data) ==
    LET alphabet == UpperCase \o LowerCase \o "0123456789+/"
        replaced(c) == CASE c = "-" -> "+" [] c = "_" -> "/" [] OTHER -> c
        RECURSIVE replace(_)
        replace(s) == IF Len(s) = 0 THEN ""
                      ELSE replaced(CharAt(s, 1)) \o replace(SubSeq(s, 2, Len(s)))
        RECURSIVE pad(_)
        pad(s) == IF Len(s) % 4 = 0 THEN s ELSE pad(s \o "=")
        isB64(c) == \E i \in 1..64 : CharAt(alphabet, i) = c
        index(c) == (CHOOSE i \in 1..64 : CharAt(alphabet, i) = c) - 1
        RECURSIVE atob(_)
        atob(s) ==
            IF Len(s) = 0 THEN <<>>
            ELSE LET a == index(CharAt(s, 1))
                     b == index(CharAt(s, 2))
                 IN IF CharAt(s, 3) = "=" THEN <<a * 4 + b \div 16>>
                    ELSE LET c == index(CharAt(s, 3))
                         IN IF CharAt(s, 4) = "="
                            THEN <<a * 4 + b \div 16, (b % 16) * 16 + c \div 4>>
                            ELSE <<a * 4 + b \div 16, (b % 16) * 16 + c \div 4,
                                   (c % 4) * 64 + index(CharAt(s, 4))>>
                                     \o atob(SubSeq(s, 5, Len(s)))
        base64 == pad(replace(data))
        body == SelectSeq([i \in 1..Len(base64) |-> CharAt(base64, i)], LAMBDA c : c # "=")
    IN IF (\E i \in 1..Len(body) : ~isB64(body[i])) \/ Len(body) % 4 = 1 THEN JError
       ELSE JStr(atob(base64))

\* File.encode / File.decode: the switch on props.encoding.
File_encode(encoding, data) ==
    CASE encoding = "base64" -> base64urlEncode(data)
      [] encoding = "hex" -> hexEncode(data)
      [] OTHER -> JStr(data)

File_decode(encoding, data) ==
    CASE encoding = "base64" -> base64urlDecode(data)
      [] encoding = "hex" -> hexDecode(data)
      [] OTHER -> JStr(data)

(***************************************************************************)
(* Inputs of the model.                                                    *)
(***************************************************************************)
Ids == {"alice", "bob"}

DataAlice == JObj(<<Prop("name", JStr("Alice"))>>)
DataBob == JStr("Bob")
DataZero == JNum(0)
DataValues == {DataAlice, DataBob, DataZero}

MetaNone == <<>>
MetaUser == <<Prop("type", JStr("user")), Prop("department", JStr("Engineering"))>>
VaultMetadata == {MetaNone, MetaUser}

\* Math.random().toString(36).substring(2, 8): up to six base-36 digits.
RandomSuffixes == {"k3x9ab", "q7"}

VaultKeywords == {"ENGINEERING", "sales"}

(***************************************************************************)
(* State.                                                                  *)
(***************************************************************************)
VARIABLES
    initialized,    \* Vault._initialized
    records,        \* Indexer props.records
    searchIndexes,  \* Indexer props.searchIndexes
    storage,        \* Indexer props.storage
    files,          \* backend: path -> document
    dirs,           \* backend: directories
    now,            \* the clock, Date.now()
    created,        \* Vault props.created
    io,             \* this Vault instance has called the backend
    everSaved,      \* the ids a save has completed for on this backend
    nSaves,         \* Vault.save calls so far
    nAdds,          \* direct Indexer.add / rebuild calls so far
    last,           \* the latest completed call and what it returned
    mut,            \* the latest completed call that is not a pure read
    prevMut,        \* the one before it
    initPc,         \* where each of two Vault.init calls stands
    indexLoaded,    \* Indexer.loadIndex has completed on this instance
    fault,          \* the step of the call `mut` at which the backend threw, or "none"
    inflight,       \* the Vault.save calls in progress, each at one of its awaits
    peer            \* a second instance opened on the same path: its Indexer props

vars == <<initialized, records, searchIndexes, storage, files, dirs, now, created,
          io, everSaved, nSaves, nAdds, last, mut, prevMut, initPc, indexLoaded, fault,
          inflight, peer>>

Call(op, arg, data, res, file) ==
    [op |-> op, arg |-> arg, data |-> data, res |-> res, file |-> file]
NoCall == Call("none", "", JUndefined, JUndefined, "")

Cur == IndexerState(records, searchIndexes, files, dirs)

(***************************************************************************)
(* Vault.                                                                  *)
(***************************************************************************)
VERSION == "1.0.0"
VaultName == "vault@" \o VERSION            \* config.name || `vault@${VERSION}`
VaultFormat == "json"                       \* config.format || 'json'

\* Vault.generateFilename
generateFilename(metadata, timestamp, random) ==
    LET suffix == IF Truthy(Member(metadata, "type"))
                  THEN "-" \o Member(metadata, "type").s ELSE ""
        extension == IF VaultFormat = "json" THEN ".vault.json" ELSE ".vault.dat"
    IN ToString(timestamp) \o "-" \o random \o suffix \o extension

\* The document Vault.persist writes to .vault.json.
persistedState(createdAt, clock) ==
    [name |-> VaultName, version |-> VERSION, created |-> toISOString(createdAt),
     lastAccessed |-> toISOString(clock), encryption |-> FALSE, compression |-> FALSE,
     encoding |-> "utf8", format |-> VaultFormat]

\* Vault.persist
persist(st, createdAt, clock) ==
    [st EXCEPT !.files = fsWriteFile(@, MetadataPath, persistedState(createdAt, clock))]

ensureInitialized_never(flag) == FALSE

\* Vault.ensureInitialized throws unless the flag is set.
ensureInitializedThrows(flag) == ~flag

Vault_get_value_rethrow(recs, fs, id) ==
    LET filename == Indexer_get(recs, id)
    IN IF ~Truthy(filename) THEN JNull
       ELSE LET result == File_read(fs, filename.s)
            IN IF ~result.isSuccess THEN JError
               ELSE IF Truthy(result.value) THEN result.value ELSE JNull

\* Vault.get, past ensureInitialized: null when the id has no filename or the
\* read fails, else `result.value || null`.
Vault_get_value(recs, fs, id) ==
    LET filename == Indexer_get(recs, id)
    IN IF ~Truthy(filename) THEN JNull
       ELSE LET result == File_read(fs, filename.s)
            IN IF ~result.isSuccess THEN JNull
               ELSE IF Truthy(result.value) THEN result.value ELSE JNull

\* Vault.find, past ensureInitialized: the data of every match whose file
\* reads successfully with a truthy value.
Vault_find_value(recs, fs, keyword) ==
    LET indexResults == Indexer_find(recs, keyword)
        reads == [i \in 1..Len(indexResults) |-> File_read(fs, indexResults[i].filename)]
        kept == SelectSeq(reads, LAMBDA result : result.isSuccess /\ Truthy(result.value))
    IN JArr([i \in 1..Len(kept) |-> kept[i].value])

\* Vault.list, past ensureInitialized
Vault_list_value(recs) ==
    LET indexResults == Indexer_query(recs, <<>>)
    IN JArr([i \in 1..Len(indexResults) |->
               JObj(<<Prop("id", JStr(indexResults[i].id)),
                      Prop("metadata", JObj(indexResults[i].metadata))>>)])

Vault_stats_value_typed(recs, createdAt) ==
    JObj(<<Prop("name", JStr(VaultName)),
           Prop("totalRecords",
                JNum(Len(Indexer_query(recs, <<Prop("type", JStr("user"))>>)))),
           Prop("metadata", JObj(<<>>)),
           Prop("created", JDate(createdAt))>>)

\* Vault.stats, past ensureInitialized
Vault_stats_value(recs, createdAt) ==
    JObj(<<Prop("name", JStr(VaultName)),
           Prop("totalRecords", JNum(Len(Indexer_query(recs, <<>>)))),
           Prop("metadata", JObj(<<>>)),
           Prop("created", JDate(createdAt))>>)

(***************************************************************************)
(* Calls on one Vault, one at a time, on a backend that does not fail.     *)
(***************************************************************************)
Init ==
    /\ initialized = FALSE
    /\ records = <<>>
    /\ searchIndexes = <<>>
    /\ storage = "file"
    /\ files = <<>>
    /\ dirs = {}
    /\ now = 1
    /\ created = 1
    /\ io = FALSE
    /\ everSaved = {}
    /\ nSaves = 0
    /\ nAdds = 0
    /\ last = Call("create", "", JUndefined, JUndefined, "")
    /\ mut = Call("create", "", JUndefined, JUndefined, "")
    /\ prevMut = NoCall
    /\ initPc = [call \in 1..2 |-> "idle"]
    /\ indexLoaded = FALSE
    /\ fault = "none"
    /\ inflight = [slot \in 1..2 |-> [pc |-> "idle"]]
    /\ peer = [open |-> FALSE]

Returns(call) == /\ last' = call
                 /\ UNCHANGED <<mut, prevMut, fault, inflight, peer>>

ReturnsMut(call) == /\ last' = call
                    /\ mut' = call
                    /\ prevMut' = mut
                    /\ fault' = "none"
                    /\ UNCHANGED <<inflight, peer>>

\* The call ends after the backend threw at step `at`.
ReturnsFault(call, at) == /\ last' = call
                          /\ mut' = call
                          /\ prevMut' = mut
                          /\ fault' = at
                          /\ UNCHANGED <<inflight, peer>>

Becomes(st) == /\ records' = st.records
               /\ searchIndexes' = st.searchIndexes
               /\ files' = st.files
               /\ dirs' = st.dirs

\* What the instance answers to get(id), for every id, and to list().
Answers ==
    [t |-> "answers",
     initialized |-> initialized,
     get |-> [id \in Ids |-> Vault_get_value(records, files, id)],
     list |-> {r.id : r \in {Indexer_query(records, <<>>)[i] :
                                 i \in 1..Len(Indexer_query(records, <<>>))}}]

\* Vault.create on the same path and backend: a new instance, nothing loaded.
\* The call record keeps what the instance it replaces answered.
Vault_create ==
    /\ initialized' = FALSE
    /\ records' = <<>>
    /\ searchIndexes' = <<>>
    /\ created' = now
    /\ io' = FALSE
    /\ ReturnsMut(Call("create", "", Answers, JUndefined, ""))
    /\ indexLoaded' = FALSE
    /\ UNCHANGED <<storage, files, dirs, now, everSaved, nSaves, nAdds, initPc>>

\* Vault.init, run to completion.
Vault_init ==
    /\ IF initialized
       THEN UNCHANGED <<initialized, records, searchIndexes, files, dirs, io, indexLoaded>>
       ELSE LET existingMetadata == fsExists(files, MetadataPath)      \* Vault.load
                ensured == IF existingMetadata THEN Cur
                           ELSE [Cur EXCEPT !.dirs = @ \cup {VaultPath}]
                loaded == loadIndex(ensured, storage)
            IN /\ initialized' = TRUE
               /\ Becomes(persist(loaded, created, now))
               /\ io' = TRUE
               /\ indexLoaded' = TRUE
    /\ ReturnsMut(Call("init", "", JUndefined, JUndefined, ""))
    /\ UNCHANGED <<storage, now, created, everSaved, nSaves, nAdds, initPc>>

\* Vault.save, past ensureInitialized, on a backend that does not fail: write
\* the record file, add the index record, persist the vault metadata.
Vault_save_state(st, mode, id, data, metadata, timestamp, random, createdAt) ==
    LET filepath == VaultPath \o "/" \o generateFilename(metadata, timestamp, random)
        written == [st EXCEPT !.files =
                       fsWriteFile(@, filepath, File_toJSON(id, data, metadata))]
        indexRecord ==
            IndexRecord(id, filepath,
                        SetProp(SetProp(metadata, "created", JDate(timestamp)),
                                "updated", JDate(timestamp)),
                        JDate(timestamp), JDate(timestamp))
    IN persist(Indexer_add(written, mode, indexRecord, timestamp), createdAt, timestamp)

Vault_save_failed_late(st, mode, id, data, metadata, timestamp, random, failAt) ==
    LET filepath == VaultPath \o "/" \o generateFilename(metadata, timestamp, random)
        written == [st EXCEPT !.files =
                       fsWriteFile(@, filepath, File_toJSON(id, data, metadata))]
        indexRecord ==
            IndexRecord(id, filepath,
                        SetProp(SetProp(metadata, "created", JDate(timestamp)),
                                "updated", JDate(timestamp)),
                        JDate(timestamp), JDate(timestamp))
    IN IF failAt = "persist" THEN Indexer_add(written, mode, indexRecord, timestamp)
       ELSE Indexer_add(IF failAt = "write" THEN st ELSE written,
                        "memory", indexRecord, timestamp)

\* Vault.save when a backend call throws: at "write" File.write returns a
\* failed Result and save throws before the index is touched; at "index"
\* Indexer.add has changed the Map and the search terms when saveToFile
\* throws; at "persist" only the write of .vault.json is missing.
Vault_save_failed(st, mode, id, data, metadata, timestamp, random, failAt) ==
    LET filepath == VaultPath \o "/" \o generateFilename(metadata, timestamp, random)
        written == [st EXCEPT !.files =
                       fsWriteFile(@, filepath, File_toJSON(id, data, metadata))]
        indexRecord ==
            IndexRecord(id, filepath,
                        SetProp(SetProp(metadata, "created", JDate(timestamp)),
                                "updated", JDate(timestamp)),
                        JDate(timestamp), JDate(timestamp))
    IN CASE failAt = "write" -> st
         [] failAt = "index" -> Indexer_add(written, "memory", indexRecord, timestamp)
         [] failAt = "persist" -> Indexer_add(written, mode, indexRecord, timestamp)

\* Vault.save; timestamp is what Date.now() gives this call.
Vault_save(id, data, metadata, timestamp, random) ==
    /\ nSaves < MaxSaves
    /\ nSaves' = nSaves + 1
    /\ timestamp >= now
    /\ now' = IF ensureInitializedThrows(initialized) THEN now ELSE timestamp
    /\ IF ensureInitializedThrows(initialized)
       THEN /\ ReturnsMut(Call("save", id, data, JError, ""))
            /\ UNCHANGED <<records, searchIndexes, files, dirs, io, everSaved>>
       ELSE LET filepath == VaultPath \o "/" \o generateFilename(metadata, timestamp, random)
            IN /\ Becomes(Vault_save_state(Cur, storage, id, data, metadata,
                                            timestamp, random, created))
               /\ io' = TRUE
               /\ everSaved' = everSaved \cup {id}
               /\ ReturnsMut(Call("save", id, data, JUndefined, filepath))
    /\ UNCHANGED <<initialized, storage, created, nAdds, initPc, indexLoaded>>

\* Vault.get
Vault_get(id) ==
    /\ IF ensureInitializedThrows(initialized)
       THEN /\ Returns(Call("get", id, JUndefined, JError, ""))
            /\ UNCHANGED io
       ELSE /\ Returns(Call("get", id, JUndefined, Vault_get_value(records, files, id), ""))
            /\ io' = (io \/ Truthy(Indexer_get(records, id)))
    /\ UNCHANGED <<initialized, records, searchIndexes, storage, files, dirs, now,
                   created, everSaved, nSaves, nAdds, initPc, indexLoaded>>

\* Vault.find
Vault_find(keyword) ==
    /\ IF ensureInitializedThrows(initialized)
       THEN /\ Returns(Call("find", keyword, JUndefined, JError, ""))
            /\ UNCHANGED io
       ELSE /\ Returns(Call("find", keyword, JUndefined,
                            Vault_find_value(records, files, keyword), ""))
            /\ io' = (io \/ Indexer_find(records, keyword) # <<>>)
    /\ UNCHANGED <<initialized, records, searchIndexes, storage, files, dirs, now,
                   created, everSaved, nSaves, nAdds, initPc, indexLoaded>>

\* Vault.list
Vault_list ==
    /\ Returns(Call("list", "", JUndefined,
                    IF ensureInitializedThrows(initialized) THEN JError
                    ELSE Vault_list_value(records), ""))
    /\ UNCHANGED <<initialized, records, searchIndexes, storage, files, dirs, now,
                   created, io, everSaved, nSaves, nAdds, initPc, indexLoaded>>

\* Vault.stats
Vault_stats ==
    /\ Returns(Call("stats", "", JUndefined,
                    IF ensureInitializedThrows(initialized) THEN JError
                    ELSE Vault_stats_value(records, created), ""))
    /\ UNCHANGED <<initialized, records, searchIndexes, storage, files, dirs, now,
                   created, io, everSaved, nSaves, nAdds, initPc, indexLoaded>>

\* Vault.delete
Vault_delete(id) ==
    /\ IF ensureInitializedThrows(initialized)
       THEN /\ ReturnsMut(Call("delete", id, JUndefined, JError, ""))
            /\ UNCHANGED <<records, searchIndexes, files, dirs, io>>
       ELSE LET filename == Indexer_get(records, id)
            IN IF ~Truthy(filename)
               THEN /\ ReturnsMut(Call("delete", id, JUndefined, JBool(FALSE), ""))
                    /\ UNCHANGED <<records, searchIndexes, files, dirs, io>>
               ELSE LET deleted == [Cur EXCEPT !.files = fsDeleteFile(@, filename.s)]
                    IN /\ Becomes(Indexer_remove(deleted, storage, id, now))
                       /\ io' = TRUE
                       /\ ReturnsMut(Call("delete", id, JUndefined, JBool(TRUE), filename.s))
    /\ UNCHANGED <<initialized, storage, now, created, everSaved, nSaves, nAdds,
                   initPc, indexLoaded>>

Next ==
    \/ Vault_init
    \/ \E id \in Ids, data \in DataValues, metadata \in VaultMetadata,
          timestamp \in 1..MaxClock, random \in RandomSuffixes :
          Vault_save(id, data, metadata, timestamp, random)
    \/ \E id \in Ids : Vault_get(id)
    \/ \E keyword \in VaultKeywords : Vault_find(keyword)
    \/ Vault_list
    \/ Vault_stats
    \/ \E id \in Ids : Vault_delete(id)

Spec == Init /\ [][Next]_vars

(***************************************************************************)
(* The same calls, and Vault.create of a new Vault on the path and backend *)
(* of the current one, which is then dropped.                              *)
(***************************************************************************)
NextReopen ==
    \/ Vault_init
    \/ Vault_create
    \/ \E id \in Ids, data \in DataValues, metadata \in VaultMetadata,
          timestamp \in 1..MaxClock :
          Vault_save(id, data, metadata, timestamp, "q7")
    \/ \E id \in Ids : Vault_get(id)
    \/ Vault_list
    \/ \E id \in Ids : Vault_delete(id)

SpecReopen == Init /\ [][NextReopen]_vars

(***************************************************************************)
(* Calls on one Indexer (the catalog), one at a time, in 'memory' or in    *)
(* 'file' mode on a backend that does not fail.                            *)
(***************************************************************************)
JSuccess == [t |-> "success"]       \* Result.success(undefined)

CatMetaFlat == <<Prop("department", JStr("Engineering")), Prop("level", JNum(1))>>
CatMetaNested ==
    <<Prop("department", JStr("Sales")),
      Prop("profile", JObj(<<Prop("team", JStr("Platform Engineering"))>>))>>
CatMetaTags == <<Prop("tags", JArr(<<JStr("engineering"), JStr("ops")>>))>>
CatMetaAuthors ==
    <<Prop("authors", JArr(<<JObj(<<Prop("name", JStr("Engineering Guild"))>>)>>))>>
CatalogMetadata == {CatMetaFlat, CatMetaNested, CatMetaTags, CatMetaAuthors}

CatalogFilenames == {VaultPath \o "/f1.vault.json", VaultPath \o "/f2.vault.json"}

CatalogRecords ==
    {IndexRecord(id, filename, metadata, JDate(1), JDate(1)) :
        id \in Ids, filename \in CatalogFilenames, metadata \in CatalogMetadata}

RebuildRecords ==
    {r \in CatalogRecords :
        /\ r.filename = VaultPath \o "/f1.vault.json"
        /\ r.metadata \in {CatMetaFlat, CatMetaTags}}

RebuildLists ==
    UNION {[1..n -> RebuildRecords] : n \in 0..MaxRebuild}

CatalogKeywords == {"ENG", "sales"}

\* The conditions given to Indexer.query.
CatalogConditions ==
    {<<>>,
     <<Prop("department", JStr("Engineering"))>>,
     <<Prop("level", JNum(1))>>,
     <<Prop("level", JStr("1"))>>,
     <<Prop("profile.team", JStr("Platform Engineering"))>>,
     <<Prop("department", JStr("Sales")), Prop("level", JNum(1))>>,
     <<Prop("nickname", JUndefined)>>}

IdArray(recs) == JArr([i \in 1..Len(recs) |-> JStr(recs[i].id)])

\* Indexer.create: nothing loaded, nothing written.
InitCatalog ==
    /\ initialized = FALSE
    /\ records = <<>>
    /\ searchIndexes = <<>>
    /\ storage \in {"memory", "file"}
    /\ files = <<>>
    /\ dirs = {}
    /\ now = 1
    /\ created = 1
    /\ io = FALSE
    /\ everSaved = {}
    /\ nSaves = 0
    /\ nAdds = 0
    /\ last = Call("create", "", JUndefined, JUndefined, "")
    /\ mut = Call("create", "", JUndefined, JUndefined, "")
    /\ prevMut = NoCall
    /\ initPc = [call \in 1..2 |-> "idle"]
    /\ indexLoaded = FALSE
    /\ fault = "none"
    /\ inflight = [slot \in 1..2 |-> [pc |-> "idle"]]
    /\ peer = [open |-> FALSE]

CatalogFrame ==
    UNCHANGED <<initialized, storage, now, created, io, everSaved, nSaves,
                initPc, indexLoaded>>

\* Indexer.add
Catalog_add(record) ==
    /\ nAdds < MaxAdds
    /\ nAdds' = nAdds + 1
    /\ Becomes(Indexer_add(Cur, storage, record, now))
    /\ ReturnsMut(Call("add", record.id, JObj(record.metadata), JSuccess, record.filename))
    /\ CatalogFrame

\* Indexer.remove
Catalog_remove(id) ==
    /\ Becomes(Indexer_remove(Cur, storage, id, now))
    /\ ReturnsMut(Call("remove", id, JUndefined, JSuccess, ""))
    /\ UNCHANGED nAdds
    /\ CatalogFrame

\* Indexer.rebuild
Catalog_rebuild(list) ==
    /\ nAdds < MaxAdds
    /\ nAdds' = nAdds + 1
    /\ Becomes(Indexer_rebuild(Cur, storage, list, now))
    /\ ReturnsMut(Call("rebuild", "", JArr(list), JSuccess, ""))
    /\ CatalogFrame

\* Indexer.get
Catalog_get(id) ==
    /\ Returns(Call("get", id, JUndefined, Indexer_get(records, id), ""))
    /\ UNCHANGED <<records, searchIndexes, files, dirs, nAdds>>
    /\ CatalogFrame

\* Indexer.find
Catalog_find(keyword) ==
    /\ Returns(Call("find", keyword, JUndefined, IdArray(Indexer_find(records, keyword)), ""))
    /\ UNCHANGED <<records, searchIndexes, files, dirs, nAdds>>
    /\ CatalogFrame

\* Indexer.query
Catalog_query(conditions) ==
    /\ Returns(Call("query", "", JObj(conditions),
                    IdArray(Indexer_query(records, conditions)), ""))
    /\ UNCHANGED <<records, searchIndexes, files, dirs, nAdds>>
    /\ CatalogFrame

NextCatalog ==
    \/ \E record \in CatalogRecords : Catalog_add(record)
    \/ \E id \in Ids : Catalog_remove(id)
    \/ \E list \in RebuildLists : Catalog_rebuild(list)
    \/ \E id \in Ids : Catalog_get(id)
    \/ \E keyword \in CatalogKeywords : Catalog_find(keyword)
    \/ \E conditions \in CatalogConditions : Catalog_query(conditions)

SpecCatalog == InitCatalog /\ [][NextCatalog]_vars

(***************************************************************************)
(* Vault.init step by step: each action runs init from one await to the    *)
(* next, other calls on the Vault run in between, and a backend call of     *)
(* init may fail.  The backend is empty or holds what an earlier Vault on   *)
(* the same path left there.                                                *)
(***************************************************************************)
EmptyBackend == IndexerState(<<>>, <<>>, <<>>, {})

\* What a Vault leaves behind after init() and one save.
EarlierVault(id, indexIntact) ==
    LET opened == persist([EmptyBackend EXCEPT !.dirs = {VaultPath}], 1, 1)
        saved == Vault_save_state(opened, "file", id, DataAlice, MetaUser, 1, "k3x9ab", 1)
    IN IF indexIntact THEN saved
       ELSE [saved EXCEPT !.files = fsWriteFile(@, IndexFilePath, Malformed)]

InitSteps ==
    /\ initialized = FALSE
    /\ records = <<>>
    /\ searchIndexes = <<>>
    /\ storage = "file"
    /\ \/ /\ files = <<>> /\ dirs = {} /\ everSaved = {}
       \/ \E id \in Ids, indexIntact \in BOOLEAN :
             /\ files = EarlierVault(id, indexIntact).files
             /\ dirs = EarlierVault(id, indexIntact).dirs
             /\ everSaved = {id}
    /\ now = 1
    /\ created = 1
    /\ io = FALSE
    /\ nSaves = 0
    /\ nAdds = 0
    /\ last = Call("create", "", JUndefined, JUndefined, "")
    /\ mut = Call("create", "", JUndefined, JUndefined, "")
    /\ prevMut = NoCall
    /\ initPc = [call \in 1..2 |-> "idle"]
    /\ indexLoaded = FALSE
    /\ fault = "none"
    /\ inflight = [slot \in 1..2 |-> [pc |-> "idle"]]
    /\ peer = [open |-> FALSE]

InitFrame == UNCHANGED <<storage, now, created, everSaved, nSaves, nAdds>>

\* init(): return at once when the flag is set, else start load().
Init_call(call) ==
    /\ initPc[call] = "idle"
    /\ IF initialized
       THEN /\ ReturnsMut(Call("init", "", JUndefined, JUndefined, ""))
            /\ UNCHANGED initPc
       ELSE /\ initPc' = [initPc EXCEPT ![call] = "load"]
            /\ UNCHANGED <<last, mut, prevMut, fault, inflight, peer>>
    /\ UNCHANGED <<initialized, records, searchIndexes, files, dirs, io, indexLoaded>>
    /\ InitFrame

\* load() returns: the stored metadata, or null when .vault.json is missing
\* or cannot be read (the error is caught).  With metadata the flag is set.
Init_load(call, readFails) ==
    /\ initPc[call] = "load"
    /\ LET existingMetadata == fsExists(files, MetadataPath) /\ ~readFails
       IN /\ initialized' = (initialized \/ existingMetadata)
          /\ initPc' = [initPc EXCEPT ![call] = IF existingMetadata THEN "loadIndex" ELSE "ensureDir"]
    /\ io' = TRUE
    /\ UNCHANGED <<records, searchIndexes, files, dirs, indexLoaded, last, mut, prevMut,
                   fault, inflight, peer>>
    /\ InitFrame

\* ensureDir returns and the flag is set, or ensureDir throws and init rejects.
Init_ensureDir(call, fails) ==
    /\ initPc[call] = "ensureDir"
    /\ IF fails
       THEN /\ initPc' = [initPc EXCEPT ![call] = "idle"]
            /\ ReturnsFault(Call("init", "", JUndefined, JError, ""), "ensureDir")
            /\ UNCHANGED <<initialized, dirs>>
       ELSE /\ dirs' = dirs \cup {VaultPath}
            /\ initialized' = TRUE
            /\ initPc' = [initPc EXCEPT ![call] = "loadIndex"]
            /\ UNCHANGED <<last, mut, prevMut, fault, inflight, peer>>
    /\ UNCHANGED <<records, searchIndexes, files, io, indexLoaded>>
    /\ InitFrame

\* indexer.initialize() returns with the index loaded, or the read or
\* JSON.parse throws inside loadIndex and init rejects.
Init_loadIndex(call, fails) ==
    /\ initPc[call] = "loadIndex"
    /\ IF fails \/ (fsExists(files, IndexFilePath) /\ ~WellFormed(files[IndexFilePath]))
       THEN /\ initPc' = [initPc EXCEPT ![call] = "idle"]
            /\ ReturnsFault(Call("init", "", JUndefined, JError, ""), "loadIndex")
            /\ UNCHANGED <<records, searchIndexes, files, dirs, indexLoaded>>
       ELSE /\ Becomes(loadIndex(Cur, storage))
            /\ indexLoaded' = TRUE
            /\ initPc' = [initPc EXCEPT ![call] = "persist"]
            /\ UNCHANGED <<last, mut, prevMut, fault, inflight, peer>>
    /\ UNCHANGED <<initialized, io>>
    /\ InitFrame

\* persist() returns and init resolves, or the write throws and init rejects.
Init_persist(call, fails) ==
    /\ initPc[call] = "persist"
    /\ initPc' = [initPc EXCEPT ![call] = "idle"]
    /\ IF fails
       THEN /\ ReturnsFault(Call("init", "", JUndefined, JError, ""), "persist")
            /\ UNCHANGED <<records, searchIndexes, files, dirs>>
       ELSE /\ Becomes(persist(Cur, created, now))
            /\ ReturnsMut(Call("init", "", JUndefined, JUndefined, ""))
    /\ UNCHANGED <<initialized, io, indexLoaded>>
    /\ InitFrame

NextSteps ==
    \/ \E call \in 1..2 : Init_call(call)
    \/ \E call \in 1..2, readFails \in BOOLEAN : Init_load(call, readFails)
    \/ \E call \in 1..2, fails \in BOOLEAN : Init_ensureDir(call, fails)
    \/ \E call \in 1..2, fails \in BOOLEAN : Init_loadIndex(call, fails)
    \/ \E call \in 1..2, fails \in BOOLEAN : Init_persist(call, fails)
    \/ \E id \in Ids, timestamp \in 1..MaxClock :
          Vault_save(id, DataBob, MetaNone, timestamp, "q7")
    \/ \E id \in Ids : Vault_get(id)
    \/ Vault_list
    \/ \E id \in Ids : Vault_delete(id)

SpecInit == InitSteps /\ [][NextSteps]_vars

(***************************************************************************)
(* Calls on one Vault, one at a time, on a backend whose calls may throw   *)
(* and whose record file may have been removed or damaged since an earlier *)
(* Vault on the same path wrote it.                                        *)
(***************************************************************************)
Damages == {"none", "missing", "malformed"}

\* What an earlier Vault left on the path, and what became of its record file.
DamagedVault(id, damage) ==
    LET left == EarlierVault(id, TRUE)
        recordFile == MapGet(left.records, id).filename
    IN CASE damage = "none" -> left
         [] damage = "missing" -> [left EXCEPT !.files = fsDeleteFile(@, recordFile)]
         [] damage = "malformed" ->
              [left EXCEPT !.files = fsWriteFile(@, recordFile, Malformed)]

InitFaults ==
    /\ initialized = FALSE
    /\ records = <<>>
    /\ searchIndexes = <<>>
    /\ storage = "file"
    /\ \/ /\ files = <<>> /\ dirs = {} /\ everSaved = {}
       \/ \E damage \in Damages :
             /\ files = DamagedVault("alice", damage).files
             /\ dirs = DamagedVault("alice", damage).dirs
             /\ everSaved = {"alice"}
    /\ now = 1
    /\ created = 1
    /\ io = FALSE
    /\ nSaves = 0
    /\ nAdds = 0
    /\ last = Call("create", "", JUndefined, JUndefined, "")
    /\ mut = Call("create", "", JUndefined, JUndefined, "")
    /\ prevMut = NoCall
    /\ initPc = [call \in 1..2 |-> "idle"]
    /\ indexLoaded = FALSE
    /\ fault = "none"
    /\ inflight = [slot \in 1..2 |-> [pc |-> "idle"]]
    /\ peer = [open |-> FALSE]

\* The circumstances of a read call: the paths whose readFile throws.
ReadFaults(unreadable) == [t |-> "unreadable", paths |-> unreadable]

\* Vault.save during which the backend call at step failAt throws.
Faulty_save(id, data, metadata, timestamp, random, failAt) ==
    /\ nSaves < MaxSaves
    /\ nSaves' = nSaves + 1
    /\ timestamp >= now
    /\ now' = IF ensureInitializedThrows(initialized) THEN now ELSE timestamp
    /\ IF ensureInitializedThrows(initialized)
       THEN /\ ReturnsMut(Call("save", id, data, JError, ""))
            /\ UNCHANGED <<records, searchIndexes, files, dirs, io>>
       ELSE LET filepath == VaultPath \o "/" \o generateFilename(metadata, timestamp, random)
            IN /\ Becomes(Vault_save_failed(Cur, storage, id, data, metadata,
                                             timestamp, random, failAt))
               /\ io' = TRUE
               /\ ReturnsFault(Call("save", id, data, JError, filepath), failAt)
    /\ UNCHANGED <<initialized, storage, created, everSaved, nAdds, initPc, indexLoaded>>

\* Vault.get while readFile of the record file may throw.
Faulty_get(id, unreadable) ==
    /\ IF ensureInitializedThrows(initialized)
       THEN /\ Returns(Call("get", id, ReadFaults(unreadable), JError, ""))
            /\ UNCHANGED io
       ELSE /\ Returns(Call("get", id, ReadFaults(unreadable),
                            Vault_get_value(records, Unreadable(files, unreadable), id), ""))
            /\ io' = (io \/ Truthy(Indexer_get(records, id)))
    /\ UNCHANGED <<initialized, records, searchIndexes, storage, files, dirs, now,
                   created, everSaved, nSaves, nAdds, initPc, indexLoaded>>

\* Vault.find while readFile of some record files may throw.
Faulty_find(keyword, unreadable) ==
    /\ IF ensureInitializedThrows(initialized)
       THEN /\ Returns(Call("find", keyword, ReadFaults(unreadable), JError, ""))
            /\ UNCHANGED io
       ELSE /\ Returns(Call("find", keyword, ReadFaults(unreadable),
                            Vault_find_value(records, Unreadable(files, unreadable), keyword),
                            ""))
            /\ io' = (io \/ Indexer_find(records, keyword) # <<>>)
    /\ UNCHANGED <<initialized, records, searchIndexes, storage, files, dirs, now,
                   created, everSaved, nSaves, nAdds, initPc, indexLoaded>>

Vault_delete_failed_rollback(st, mode, id, filename, clock, failAt) == st

Vault_delete_failed_unlinked(st, mode, id, filename, clock, failAt) ==
    [st EXCEPT !.files = fsDeleteFile(@, filename)]

\* Vault.delete when a backend call throws: at "deleteFile" nothing has
\* changed; at "index" the file is deleted and Indexer.remove has changed the
\* Map and the search terms when saveToFile throws.
Vault_delete_failed(st, mode, id, filename, clock, failAt) ==
    CASE failAt = "deleteFile" -> st
      [] failAt = "index" ->
           Indexer_remove([st EXCEPT !.files = fsDeleteFile(@, filename)],
                          "memory", id, clock)

\* Vault.delete during which the backend call at step failAt throws: the
\* catch block logs the error and returns false.
Faulty_delete(id, failAt) ==
    /\ IF ensureInitializedThrows(initialized)
       THEN /\ ReturnsMut(Call("delete", id, JUndefined, JError, ""))
            /\ UNCHANGED <<records, searchIndexes, files, dirs, io>>
       ELSE LET filename == Indexer_get(records, id)
            IN IF ~Truthy(filename)
               THEN /\ ReturnsMut(Call("delete", id, JUndefined, JBool(FALSE), ""))
                    /\ UNCHANGED <<records, searchIndexes, files, dirs, io>>
               ELSE /\ Becomes(Vault_delete_failed(Cur, storage, id, filename.s, now, failAt))
                    /\ io' = TRUE
                    /\ ReturnsFault(Call("delete", id, JUndefined, JBool(FALSE), filename.s),
                                    failAt)
    /\ UNCHANGED <<initialized, storage, now, created, everSaved, nSaves, nAdds,
                   initPc, indexLoaded>>

RecordFiles == DOMAIN files \ {IndexFilePath, MetadataPath}

NextFaults ==
    \/ Vault_init
    \/ \E id \in Ids, data \in {DataBob, DataZero}, timestamp \in 1..MaxClock :
          Vault_save(id, data, MetaUser, timestamp, "k3x9ab")
    \/ \E id \in Ids, timestamp \in 1..MaxClock, failAt \in {"write", "index", "persist"} :
          Faulty_save(id, DataBob, MetaUser, timestamp, "k3x9ab", failAt)
    \/ \E id \in Ids, unreadable \in {{}, RecordFiles} : Faulty_get(id, unreadable)
    \/ \E unreadable \in {{}} \cup {{path} : path \in RecordFiles} :
          Faulty_find("ENGINEERING", unreadable)
    \/ Vault_list
    \/ \E id \in Ids : Vault_delete(id)
    \/ \E id \in Ids, failAt \in {"deleteFile", "index"} : Faulty_delete(id, failAt)

SpecFaults == InitFaults /\ [][NextFaults]_vars

(***************************************************************************)
(* The calls that only read the catalog, on a Vault and on its Indexer,    *)
(* between saves and deletes; the record file an earlier Vault wrote may   *)
(* be missing or damaged.                                                  *)
(***************************************************************************)
NextReads ==
    \/ Vault_init
    \/ \E id \in Ids, timestamp \in 1..MaxClock :
          Vault_save(id, DataBob, MetaUser, timestamp, "q7")
    \/ \E id \in Ids : Vault_delete(id)
    \/ Vault_list
    \/ Vault_stats
    \/ \E id \in Ids : Catalog_get(id)
    \/ \E keyword \in CatalogKeywords : Catalog_find(keyword)
    \/ \E conditions \in CatalogConditions : Catalog_query(conditions)

SpecReads == InitFaults /\ [][NextReads]_vars

(***************************************************************************)
(* The record codec: a File written and read back through the backend and *)
(* a text through File.encode and File.decode, for inputs drawn from the   *)
(* sets below; and a Vault opened on a path whose record file was          *)
(* rewritten with another id or another checksum.                          *)
(***************************************************************************)
MaxLen == 3

\* Strings over "A", two Latin-1 letters whose base64 uses "+" and "/", and
\* the euro sign U+20AC, above 0xFF.
CodecStrings == UNION {[1..n -> {65, 251, 255, 8364}] : n \in 0..MaxLen}

\* What an earlier Vault left on the path, its record file rewritten since
\* to hold `data`, under another id or with another checksum.
TamperedVault(id, tamper, data) ==
    LET left == EarlierVault(id, TRUE)
        recordFile == MapGet(left.records, id).filename
        document == [left.files[recordFile] EXCEPT !.data = data, !.checksum = checksum(data)]
    IN CASE tamper = "none" ->
              [left EXCEPT !.files = fsWriteFile(@, recordFile, document)]
         [] tamper = "id" ->
              [left EXCEPT !.files = fsWriteFile(@, recordFile, [document EXCEPT !.id = "mallory"])]
         [] tamper = "checksum" ->
              [left EXCEPT !.files = fsWriteFile(@, recordFile, [document EXCEPT !.checksum = "AAAA"])]

InitTampered ==
    /\ initialized = FALSE
    /\ records = <<>>
    /\ searchIndexes = <<>>
    /\ storage = "file"
    /\ \E tamper \in {"none", "id", "checksum"}, data \in DataValues :
          /\ files = TamperedVault("alice", tamper, data).files
          /\ dirs = TamperedVault("alice", tamper, data).dirs
    /\ everSaved = {"alice"}
    /\ now = 1
    /\ created = 1
    /\ io = FALSE
    /\ nSaves = 0
    /\ nAdds = 0
    /\ last = Call("create", "", JUndefined, JUndefined, "")
    /\ mut = Call("create", "", JUndefined, JUndefined, "")
    /\ prevMut = NoCall
    /\ initPc = [call \in 1..2 |-> "idle"]
    /\ indexLoaded = FALSE
    /\ fault = "none"
    /\ inflight = [slot \in 1..2 |-> [pc |-> "idle"]]
    /\ peer = [open |-> FALSE]

\* file.decode(file.encode(s)); a throw of either ends the call.
File_transport(encoding, s) ==
    /\ LET encoded == File_encode(encoding, s)
       IN Returns(Call("decode", encoding, JStr(s),
                       IF encoded = JError THEN JError ELSE File_decode(encoding, encoded.s),
                       ""))
    /\ UNCHANGED <<initialized, records, searchIndexes, storage, files, dirs, now, created,
                   io, everSaved, nSaves, nAdds, initPc, indexLoaded>>

\* File.create({id, filename, data, metadata}).write(), then
\* File.create({filename}).read() on the same backend.
File_write_read(id, filename, data, metadata) ==
    /\ files' = fsWriteFile(files, filename, File_toJSON(id, data, metadata))
    /\ Returns(Call("read", id, [data |-> data, metadata |-> metadata],
                       File_read(files', filename), filename))
    /\ UNCHANGED <<initialized, records, searchIndexes, storage, dirs, now, created,
                   io, everSaved, nSaves, nAdds, initPc, indexLoaded>>

NextCodec ==
    \/ \E encoding \in {"utf8", "base64", "hex"}, s \in CodecStrings :
          File_transport(encoding, s)
    \/ \E data \in DataValues \cup {JDate(1)}, metadata \in VaultMetadata :
          File_write_read("alice", "integrity.json", data, metadata)

SpecCodec == Init /\ [][NextCodec]_vars

NextTampered ==
    \/ Vault_init
    \/ \E id \in Ids, timestamp \in 1..MaxClock :
          Vault_save(id, DataBob, MetaUser, timestamp, "q7")
    \/ \E id \in Ids : Vault_get(id)
    \/ \E keyword \in VaultKeywords : Vault_find(keyword)
    \/ Vault_list
    \/ \E id \in Ids : Vault_delete(id)

SpecTampered == InitTampered /\ [][NextTampered]_vars

(***************************************************************************)
(* Two Vault.save calls in progress on one Vault.  Each action runs one    *)
(* save from one await to the next; the other save runs in between.        *)
(***************************************************************************)
\* A save whose filename starts with the id.
Save_call_named(slot, id, data, metadata, timestamp, random) ==
    /\ inflight[slot].pc = "idle"
    /\ timestamp >= now
    /\ nSaves' = nSaves + 1
    /\ LET InProgress(other) == inflight[other].pc \notin {"idle", "done"} IN
       IF ensureInitializedThrows(initialized)
       THEN /\ last' = Call("save", id, data, JError, "")
            /\ mut' = last'
            /\ prevMut' = mut
            /\ inflight' = [inflight EXCEPT ![slot] = [pc |-> "done", id |-> id, threw |-> TRUE]]
            /\ UNCHANGED now
       ELSE /\ inflight' =
                 [other \in 1..2 |->
                    IF other = slot
                    THEN [pc |-> "write", id |-> id, data |-> data, metadata |-> metadata,
                          filepath |-> VaultPath \o "/" \o id \o "-" \o
                                           generateFilename(metadata, timestamp, random),
                          timestamp |-> timestamp, random |-> random, threw |-> FALSE,
                          overlapped |-> InProgress(3 - slot)]
                    ELSE IF InProgress(other)
                         THEN [inflight[other] EXCEPT !.overlapped = TRUE]
                         ELSE inflight[other]]
            /\ now' = timestamp
            /\ UNCHANGED <<last, mut, prevMut>>
    /\ UNCHANGED <<initialized, records, searchIndexes, storage, files, dirs, created, io,
                   everSaved, nAdds, initPc, indexLoaded, fault, peer>>

\* Vault.save up to `await file.write()`: ensureInitialized, generateFilename,
\* the record and the File created.
Save_call(slot, id, data, metadata, timestamp, random) ==
    /\ inflight[slot].pc = "idle"
    /\ timestamp >= now
    /\ nSaves' = nSaves + 1
    /\ LET InProgress(other) == inflight[other].pc \notin {"idle", "done"} IN
       IF ensureInitializedThrows(initialized)
       THEN /\ last' = Call("save", id, data, JError, "")
            /\ mut' = last'
            /\ prevMut' = mut
            /\ inflight' = [inflight EXCEPT ![slot] = [pc |-> "done", id |-> id, threw |-> TRUE]]
            /\ UNCHANGED now
       ELSE /\ inflight' =
                 [other \in 1..2 |->
                    IF other = slot
                    THEN [pc |-> "write", id |-> id, data |-> data, metadata |-> metadata,
                          filepath |-> VaultPath \o "/" \o
                                           generateFilename(metadata, timestamp, random),
                          timestamp |-> timestamp, random |-> random, threw |-> FALSE,
                          overlapped |-> InProgress(3 - slot)]
                    ELSE IF InProgress(other)
                         THEN [inflight[other] EXCEPT !.overlapped = TRUE]
                         ELSE inflight[other]]
            /\ now' = timestamp
            /\ UNCHANGED <<last, mut, prevMut>>
    /\ UNCHANGED <<initialized, records, searchIndexes, storage, files, dirs, created, io,
                   everSaved, nAdds, initPc, indexLoaded, fault, peer>>

\* The save goes on to Indexer.add while its record file is not written.
Save_write_skip(slot) ==
    /\ inflight[slot].pc = "write"
    /\ io' = TRUE
    /\ inflight' = [inflight EXCEPT ![slot].pc = "add"]
    /\ UNCHANGED <<initialized, records, searchIndexes, storage, files, dirs, now, created,
                   everSaved, nSaves, nAdds, last, mut, prevMut, initPc, indexLoaded,
                   fault, peer>>

\* File.write: the record file reaches the backend.
Save_write(slot) ==
    /\ inflight[slot].pc = "write"
    /\ files' = fsWriteFile(files, inflight[slot].filepath,
                            File_toJSON(inflight[slot].id, inflight[slot].data,
                                        inflight[slot].metadata))
    /\ io' = TRUE
    /\ inflight' = [inflight EXCEPT ![slot].pc = "add"]
    /\ UNCHANGED <<initialized, records, searchIndexes, storage, dirs, now, created,
                   everSaved, nSaves, nAdds, last, mut, prevMut, initPc, indexLoaded,
                   fault, peer>>

\* Indexer.add up to the first await of saveToFile: records.set,
\* updateSearchIndexes, and indexData built from Array.from(records.values()).
Save_add(slot) ==
    /\ inflight[slot].pc = "add"
    /\ LET save == inflight[slot]
           indexRecord ==
               IndexRecord(save.id, save.filepath,
                           SetProp(SetProp(save.metadata, "created", JDate(save.timestamp)),
                                   "updated", JDate(save.timestamp)),
                           JDate(save.timestamp), JDate(save.timestamp))
           added == MapSet(records, save.id, [indexRecord EXCEPT !.updated = JDate(now)])
       IN /\ records' = added
          /\ searchIndexes' = updateSearchIndexes(searchIndexes, indexRecord)
          /\ inflight' = [inflight EXCEPT
                             ![slot] = [save EXCEPT !.pc = "index"] @@
                                       [indexRecords |-> added, indexUpdated |-> now,
                                        addedAfter |-> {other \in 1..2 :
                                            inflight[other].pc \in {"index", "persist", "done"}}]]
    /\ UNCHANGED <<initialized, storage, files, dirs, now, created, io, everSaved, nSaves,
                   nAdds, last, mut, prevMut, initPc, indexLoaded, fault, peer>>

\* Indexer.saveToFile from ensureDir on: the text written is indexData as
\* built in Save_add, whose searchIndexes is the live array.
Save_index(slot) ==
    /\ inflight[slot].pc = "index"
    /\ "filepath" \in DOMAIN inflight[slot]
    /\ LET written == saveToFile(IndexerState(inflight[slot].indexRecords, searchIndexes,
                                              files, dirs),
                                 storage, inflight[slot].indexUpdated)
       IN /\ files' = written.files
          /\ dirs' = written.dirs
    /\ inflight' = [inflight EXCEPT ![slot].pc = "persist"]
    /\ UNCHANGED <<initialized, records, searchIndexes, storage, now, created, io,
                   everSaved, nSaves, nAdds, last, mut, prevMut, initPc, indexLoaded,
                   fault, peer>>

\* The save holds back its persist() while the other call is in progress.
Save_persist_locked(slot) ==
    /\ inflight[slot].pc = "persist"
    /\ inflight[3 - slot].pc \in {"idle", "done"}
    /\ files' = persist(Cur, created, now).files
    /\ everSaved' = everSaved \cup {inflight[slot].id}
    /\ inflight' = [inflight EXCEPT ![slot].pc = "done"]
    /\ last' = Call("save", inflight[slot].id, inflight[slot].data, JUndefined,
                    inflight[slot].filepath)
    /\ mut' = last'
    /\ prevMut' = mut
    /\ UNCHANGED <<initialized, records, searchIndexes, storage, dirs, now, created, io,
                   nSaves, nAdds, initPc, indexLoaded, fault, peer>>

\* Vault.persist, and the save returns.
Save_persist(slot) ==
    /\ inflight[slot].pc = "persist"
    /\ files' = persist(Cur, created, now).files
    /\ everSaved' = everSaved \cup {inflight[slot].id}
    /\ inflight' = [inflight EXCEPT ![slot].pc = "done"]
    /\ last' = Call("save", inflight[slot].id, inflight[slot].data, JUndefined,
                    inflight[slot].filepath)
    /\ mut' = last'
    /\ prevMut' = mut
    /\ UNCHANGED <<initialized, records, searchIndexes, storage, dirs, now, created, io,
                   nSaves, nAdds, initPc, indexLoaded, fault, peer>>

NextConcurrent ==
    \/ Vault_init
    \/ \E slot \in 1..2, id \in Ids, data \in {DataBob, DataZero}, timestamp \in 1..MaxClock,
          random \in RandomSuffixes, metadata \in VaultMetadata :
          Save_call(slot, id, data, metadata, timestamp, random)
    \/ \E slot \in 1..2 : Save_write(slot)
    \/ \E slot \in 1..2 : Save_add(slot)
    \/ \E slot \in 1..2 : Save_index(slot)
    \/ \E slot \in 1..2 : Save_persist(slot)

SpecConcurrent == Init /\ [][NextConcurrent]_vars

(***************************************************************************)
(* Overlapping deletes and saves.  A delete in progress stands in its slot *)
(* of `inflight` like a save: "unlink" while fs.deleteFile is awaited,     *)
(* "index" while Indexer.remove awaits the write of the catalog file;       *)
(* `present` tells whether the record file was there when the call began.  *)
(* What deleteFile does with a path that is no longer there is the         *)
(* backend's choice: it resolves, or it rejects.                           *)
(***************************************************************************)
\* Vault.delete up to `await this.fs.deleteFile(filename)`: ensureInitialized,
\* the filename read from the Map, false when there is none.
Delete_call(slot, id) ==
    /\ inflight[slot].pc = "idle"
    /\ LET filename == Indexer_get(records, id) IN
       IF ensureInitializedThrows(initialized)
       THEN /\ last' = Call("delete", id, JUndefined, JError, "")
            /\ mut' = last'
            /\ prevMut' = mut
            /\ inflight' = [inflight EXCEPT ![slot] = [pc |-> "done", id |-> id, threw |-> TRUE]]
       ELSE IF ~Truthy(filename)
       THEN /\ last' = Call("delete", id, JUndefined, JBool(FALSE), "")
            /\ mut' = last'
            /\ prevMut' = mut
            /\ inflight' = [inflight EXCEPT ![slot] =
                               [pc |-> "done", id |-> id, threw |-> FALSE, filename |-> "",
                                res |-> JBool(FALSE), present |-> FALSE]]
       ELSE /\ inflight' =
                 [other \in 1..2 |->
                    IF other = slot
                    THEN [pc |-> "unlink", id |-> id, threw |-> FALSE,
                          filename |-> filename.s, res |-> JUndefined,
                          present |-> fsExists(files, filename.s),
                          overlapped |-> inflight[3 - slot].pc \notin {"idle", "done"}]
                    ELSE IF inflight[other].pc \notin {"idle", "done"}
                         THEN [inflight[other] EXCEPT !.overlapped = TRUE]
                         ELSE inflight[other]]
            /\ UNCHANGED <<last, mut, prevMut>>
    /\ UNCHANGED <<initialized, records, searchIndexes, storage, files, dirs, now, created,
                   io, everSaved, nSaves, nAdds, initPc, indexLoaded, fault, peer>>

\* fs.deleteFile completes.  When it rejects, the catch block returns false;
\* otherwise Indexer.remove runs up to the await in saveToFile: the entry
\* leaves the Map and the terms are rebuilt if the Map has the id, and the
\* records to be written are taken.
Delete_unlink(slot, missingThrows) ==
    /\ inflight[slot].pc = "unlink"
    /\ io' = TRUE
    /\ IF missingThrows /\ ~fsExists(files, inflight[slot].filename)
       THEN /\ inflight' = [inflight EXCEPT ![slot].pc = "done", ![slot].res = JBool(FALSE)]
            /\ last' = Call("delete", inflight[slot].id, JUndefined, JBool(FALSE),
                            inflight[slot].filename)
            /\ mut' = last'
            /\ prevMut' = mut
            /\ UNCHANGED <<records, searchIndexes, files>>
       ELSE LET id == inflight[slot].id
                removed == IF MapHas(records, id) THEN MapDelete(records, id) ELSE records
            IN /\ files' = fsDeleteFile(files, inflight[slot].filename)
               /\ records' = removed
               /\ searchIndexes' = IF MapHas(records, id) THEN rebuildSearchIndexes(removed)
                                    ELSE searchIndexes
               /\ inflight' =
                     [inflight EXCEPT ![slot] =
                        [pc |-> "index", id |-> id, threw |-> FALSE,
                         filename |-> inflight[slot].filename, res |-> JUndefined,
                         present |-> inflight[slot].present,
                         overlapped |-> inflight[slot].overlapped, indexRecords |-> removed, indexUpdated |-> now]]
               /\ UNCHANGED <<last, mut, prevMut>>
    /\ UNCHANGED <<initialized, storage, dirs, now, created, everSaved, nSaves, nAdds,
                   initPc, indexLoaded, fault, peer>>

\* Indexer.saveToFile from ensureDir on, and the delete returns true.
Delete_index(slot) ==
    /\ inflight[slot].pc = "index"
    /\ "filename" \in DOMAIN inflight[slot]
    /\ LET written == saveToFile(IndexerState(inflight[slot].indexRecords, searchIndexes,
                                              files, dirs),
                                 storage, inflight[slot].indexUpdated)
       IN /\ files' = written.files
          /\ dirs' = written.dirs
    /\ inflight' = [inflight EXCEPT ![slot].pc = "done", ![slot].res = JBool(TRUE)]
    /\ last' = Call("delete", inflight[slot].id, JUndefined, JBool(TRUE),
                    inflight[slot].filename)
    /\ mut' = last'
    /\ prevMut' = mut
    /\ UNCHANGED <<initialized, records, searchIndexes, storage, now, created, io,
                   everSaved, nSaves, nAdds, initPc, indexLoaded, fault, peer>>

NextRace ==
    \/ Vault_init
    \/ \E slot \in 1..2, id \in Ids, timestamp \in 1..MaxClock :
          Save_call(slot, id, DataBob, MetaUser, timestamp, "q7")
    \/ \E slot \in 1..2 : Save_write(slot)
    \/ \E slot \in 1..2 : Save_add(slot)
    \/ \E slot \in 1..2 : Save_index(slot)
    \/ \E slot \in 1..2 : Save_persist(slot)
    \/ \E slot \in 1..2, id \in Ids : Delete_call(slot, id)
    \/ \E slot \in 1..2, missingThrows \in BOOLEAN : Delete_unlink(slot, missingThrows)
    \/ \E slot \in 1..2 : Delete_index(slot)

SpecRace == InitFaults /\ [][NextRace]_vars

(***************************************************************************)
(* The calls of a Vault with every backend call returning in the end.  A   *)
(* call stands at an await of a backend call; the step that continues it   *)
(* is the backend call returning, with a value or with an error, so each   *)
(* such step is weakly fair.  The steps that start a call are not fair:    *)
(* the caller need not call.  get, find, list and stats run in one step;   *)
(* stats stands for them here.                                             *)
(***************************************************************************)
NextLive ==
    \/ \E call \in 1..2 : Init_call(call)
    \/ \E call \in 1..2 : Init_load(call, FALSE)
    \/ \E call \in 1..2 : Init_ensureDir(call, FALSE)
    \/ \E call \in 1..2, fails \in BOOLEAN : Init_loadIndex(call, fails)
    \/ \E call \in 1..2 : Init_persist(call, FALSE)
    \/ \E slot \in 1..2 : Save_call(slot, "bob", DataBob, MetaNone, MaxClock, "q7")
    \/ \E slot \in 1..2 : Save_write(slot)
    \/ \E slot \in 1..2 : Save_add(slot)
    \/ \E slot \in 1..2 : Save_index(slot)
    \/ \E slot \in 1..2 : Save_persist(slot)
    \/ \E slot \in 1..2 : Delete_call(slot, "bob")
    \/ \E slot \in 1..2, missingThrows \in BOOLEAN : Delete_unlink(slot, missingThrows)
    \/ \E slot \in 1..2 : Delete_index(slot)
    \/ Vault_stats

SpecLive ==
    /\ Init
    /\ [][NextLive]_vars
    /\ \A call \in 1..2 :
          WF_vars(\/ Init_load(call, FALSE)
                  \/ Init_ensureDir(call, FALSE)
                  \/ \E fails \in BOOLEAN : Init_loadIndex(call, fails)
                  \/ Init_persist(call, FALSE))
    /\ \A slot \in 1..2 :
          WF_vars(\/ Save_write(slot) \/ Save_add(slot) \/ Save_index(slot)
                  \/ Save_persist(slot)
                  \/ \E missingThrows \in BOOLEAN : Delete_unlink(slot, missingThrows)
                  \/ Delete_index(slot))

(***************************************************************************)
(* Two Vaults created on the same path and backend, each with its own      *)
(* Indexer.  The variables of the instance hold the Vault the next call is *)
(* made on, `peer` holds the other one; calls run one at a time.           *)
(***************************************************************************)
InitTwo ==
    /\ initialized = FALSE
    /\ records = <<>>
    /\ searchIndexes = <<>>
    /\ storage = "file"
    /\ files = <<>>
    /\ dirs = {}
    /\ now = 1
    /\ created = 1
    /\ io = FALSE
    /\ everSaved = {}
    /\ nSaves = 0
    /\ nAdds = 0
    /\ last = Call("create", "", JUndefined, JUndefined, "")
    /\ mut = Call("create", "", JUndefined, JUndefined, "")
    /\ prevMut = NoCall
    /\ initPc = [call \in 1..2 |-> "idle"]
    /\ indexLoaded = FALSE
    /\ fault = "none"
    /\ inflight = [slot \in 1..2 |-> [pc |-> "idle"]]
    /\ peer = [open |-> TRUE, initialized |-> FALSE, records |-> <<>>,
               searchIndexes |-> <<>>, created |-> 1, io |-> FALSE, indexLoaded |-> FALSE]

\* The next call is made on the other Vault.
Vault_other ==
    /\ peer.open
    /\ peer' = [open |-> TRUE, initialized |-> initialized, records |-> records,
                searchIndexes |-> searchIndexes, created |-> created, io |-> io,
                indexLoaded |-> indexLoaded]
    /\ initialized' = peer.initialized
    /\ records' = peer.records
    /\ searchIndexes' = peer.searchIndexes
    /\ created' = peer.created
    /\ io' = peer.io
    /\ indexLoaded' = peer.indexLoaded
    /\ last' = Call("other", "", JUndefined, JUndefined, "")
    /\ mut' = last'
    /\ prevMut' = mut
    /\ UNCHANGED <<storage, files, dirs, now, everSaved, nSaves, nAdds, initPc, fault,
                   inflight>>

NextTwo ==
    \/ Vault_init
    \/ Vault_other
    \/ \E id \in Ids, timestamp \in 1..MaxClock :
          Vault_save(id, DataBob, MetaUser, timestamp, "q7")
    \/ \E id \in Ids : Vault_delete(id)
    \/ Vault_list

SpecTwo == InitTwo /\ [][NextTwo]_vars

(***************************************************************************)
(* Claims about the Vault, checked under Spec.                             *)
(***************************************************************************)
IdsOf(recs) == {recs[i].id : i \in 1..Len(recs)}
FilenamesOf(recs) == {recs[i].filename : i \in 1..Len(recs)}
EntriesFor(recs, id) == {i \in 1..Len(recs) : recs[i].id = id}
Listed(value) == {value.a[i].o[1].v.s : i \in 1..Len(value.a)}

\* C1: on an initialized Vault, a get(id) that follows a completed
\* save(id, data, metadata) returns a value equal to data.
C1_SaveThenGet ==
    (/\ mut.op = "save" /\ mut.res # JError
     /\ last.op = "get" /\ last.arg = mut.arg)
    => last.res = mut.data

\* C2: after two completed saves of one id with different data, one after the
\* other, get(id) returns the second data, the catalog holds exactly one entry
\* for id and it references the second file, and the first record file still
\* exists on the backend and no catalog entry references it.
C2_SecondSaveWins ==
    (/\ prevMut.op = "save" /\ prevMut.res # JError
     /\ mut.op = "save" /\ mut.res # JError
     /\ mut.arg = prevMut.arg /\ mut.data # prevMut.data)
    => /\ (last.op = "get" /\ last.arg = mut.arg) => last.res = mut.data
       /\ Cardinality(EntriesFor(records, mut.arg)) = 1
       /\ MapGet(records, mut.arg).filename = mut.file
       /\ prevMut.file \in DOMAIN files
       /\ prevMut.file \notin FilenamesOf(records)

\* C3: on an initialized Vault, for an id that was never saved, get(id)
\* returns null and delete(id) returns false; neither throws and neither
\* changes the catalog or a file of the backend.
C3_NeverSaved ==
    [][(/\ initialized
        /\ last'.op \in {"get", "delete"}
        /\ last'.arg \notin everSaved)
       => /\ last'.res = (IF last'.op = "get" THEN JNull ELSE JBool(FALSE))
          /\ UNCHANGED <<records, searchIndexes, files, dirs>>]_vars

C3_Witness ==
    /\ initialized
    /\ everSaved # {}
    /\ records # <<>>
    /\ last.op = "delete"
    /\ last.arg \notin everSaved
    /\ last.res = JBool(FALSE)

\* C4: a delete(id) that follows a completed save(id, ...) returns true;
\* afterwards the catalog has no entry for id, the record file the entry
\* referenced is gone from the backend, get(id) returns null and list() does
\* not contain id.
C4_DeleteAfterSave ==
    (/\ prevMut.op = "save" /\ prevMut.res # JError
     /\ mut.op = "delete" /\ mut.arg = prevMut.arg)
    => /\ mut.res = JBool(TRUE)
       /\ mut.file = prevMut.file
       /\ mut.arg \notin IdsOf(records)
       /\ mut.file \notin DOMAIN files
       /\ (last.op = "get" /\ last.arg = mut.arg) => last.res = JNull
       /\ last.op = "list" => mut.arg \notin Listed(last.res)

C4_Witness ==
    /\ prevMut.op = "save" /\ prevMut.res # JError
    /\ mut.op = "delete" /\ mut.arg = prevMut.arg /\ mut.res = JBool(TRUE)
    /\ records # <<>>
    /\ last.op = "get" /\ last.arg = mut.arg /\ last.res = JNull

\* C5: when delete(id) is called twice in a row for a saved id, the first
\* call returns true and the second returns false without throwing, and the
\* second call changes neither the catalog nor the backend.
C5_DeleteTwice ==
    [][(/\ mut.op = "delete" /\ mut.res = JBool(TRUE)
        /\ last'.op = "delete" /\ last'.arg = mut.arg
        /\ mut' = last' /\ prevMut' = mut)
       => /\ last'.res = JBool(FALSE)
          /\ UNCHANGED <<records, searchIndexes, files, dirs>>]_vars

C5_Witness ==
    /\ prevMut.op = "delete" /\ prevMut.res = JBool(TRUE)
    /\ mut.op = "delete" /\ mut.arg = prevMut.arg /\ mut.res = JBool(FALSE)
    /\ mut.arg \in everSaved

C7_InitializedMeansLoaded ==
    initialized => (VaultPath \in dirs /\ indexLoaded)

C9_UniqueFilenames ==
    \A i, j \in 1..Len(records) :
        records[i].id # records[j].id => records[i].filename # records[j].filename

\* C10: find(keyword) returns exactly the entries whose own metadata holds a
\* string value, at any nesting depth, that contains keyword as a
\* case-insensitive substring.
RECURSIVE ContainsKeyword(_, _)
ContainsKeyword(value, keyword) ==
    CASE value.t = "str" -> includes(toLowerCase(value.s), toLowerCase(keyword))
      [] value.t = "obj" ->
           \E i \in 1..Len(value.o) : ContainsKeyword(value.o[i].v, keyword)
      [] value.t = "arr" ->
           \E i \in 1..Len(value.a) : ContainsKeyword(value.a[i], keyword)
      [] OTHER -> FALSE

C10_FindExact ==
    last.op = "find"
    => {last.res.a[i].s : i \in 1..Len(last.res.a)}
         = {records[i].id : i \in {j \in 1..Len(records) :
                                     ContainsKeyword(JObj(records[j].metadata), last.arg)}}

\* C11: query(conditions) returns exactly the entries whose metadata has, for
\* every pair (k, v) of conditions, an own top-level property k whose value is
\* the same primitive as v, with no coercion between types and no matching of
\* a dotted key against a nested object; query({}) returns every entry.
HoldsPair(metadata, pair) ==
    \E j \in 1..Len(metadata) :
        /\ metadata[j].k = pair.k
        /\ metadata[j].v.t = pair.v.t
        /\ metadata[j].v = pair.v

C12_RebuildReplaces ==
    mut.op = "rebuild"
    => /\ {r.id : r \in {Indexer_query(records, <<>>)[i] :
                              i \in 1..Len(Indexer_query(records, <<>>))}}
            = {mut.data.a[i].id : i \in 1..Len(mut.data.a)}
       /\ (last.op = "query" /\ last.data.o = <<>>)
             => {last.res.a[i].s : i \in 1..Len(last.res.a)}
                  = {mut.data.a[i].id : i \in 1..Len(mut.data.a)}
       /\ \A n \in 1..Len(searchIndexes) :
             \E i \in 1..Len(mut.data.a) :
                LET terms == extractSearchTerms(mut.data.a[i].metadata)
                IN \E t \in 1..Len(terms) : terms[t] = searchIndexes[n]

C12_Witness ==
    /\ prevMut.op = "add" /\ prevMut.arg = "bob"
    /\ prevMut.data = JObj(CatMetaNested)
    /\ mut.op = "rebuild"
    /\ Len(mut.data.a) = 1 /\ mut.data.a[1].id = "alice"
    /\ mut.data.a[1].metadata = CatMetaFlat
    /\ last.op = "query" /\ last.data.o = <<>>
    /\ last.res = JArr(<<JStr("alice")>>)
    /\ searchIndexes # <<>>

\* C13: in 'file' mode, once add, remove or rebuild has completed, the file
\* <path>/.index.json exists and holds exactly the entries of the in-memory
\* catalog, in the same order and as JSON stores them, and exactly its search
\* terms.
C13_FullSnapshot ==
    (storage = "file" /\ mut.op \in {"add", "remove", "rebuild"})
    => /\ IndexFilePath \in DOMAIN files
       /\ LET stored == files[IndexFilePath]
          IN /\ Len(stored.records) = Len(records)
             /\ \A i \in 1..Len(records) :
                   /\ stored.records[i].id = records[i].id
                   /\ stored.records[i].filename = records[i].filename
                   /\ JObj(stored.records[i].metadata) = JSONValue(JObj(records[i].metadata))
             /\ stored.searchIndexes = searchIndexes

C13_Witness ==
    /\ storage = "file"
    /\ prevMut.op = "add"
    /\ mut.op = "remove" /\ mut.arg # prevMut.arg
    /\ Len(records) = 1
    /\ Len(files[IndexFilePath].records) = 1
    /\ searchIndexes # <<>>

(***************************************************************************)
(* Claims about a Vault reopened on the same path, checked under           *)
(* SpecReopen.                                                             *)
(***************************************************************************)
\* C14: when a new Vault is created on the path and backend of an initialized
\* Vault that completed any sequence of save and delete calls, and init() of
\* the new Vault has completed, get(id) gives for every id the result the
\* original Vault gave, and list() gives the same set of ids.
C14_ReopenSameAnswers ==
    (/\ prevMut.op = "create" /\ prevMut.data.t = "answers" /\ prevMut.data.initialized
     /\ mut.op = "init" /\ mut.res # JError /\ initialized)
    => /\ \A id \in Ids : Vault_get_value(records, files, id) = prevMut.data.get[id]
       /\ Listed(Vault_list_value(records)) = prevMut.data.list
       /\ last.op = "get" => last.res = prevMut.data.get[last.arg]
       /\ last.op = "list" => Listed(last.res) = prevMut.data.list

C14_Witness ==
    /\ prevMut.op = "create" /\ prevMut.data.t = "answers" /\ prevMut.data.initialized
    /\ mut.op = "init" /\ initialized
    /\ prevMut.data.list = {"bob"}
    /\ everSaved = {"alice", "bob"}
    /\ last.op = "get" /\ last.arg = "bob" /\ last.res = DataBob

(***************************************************************************)
(* Claims about failures of the backend, checked under SpecFaults.         *)
(***************************************************************************)
\* The record file at path loads and decodes for a call made under the
\* circumstances `faults`.
Loads(path, faults) ==
    /\ path \in DOMAIN files
    /\ path \notin faults.paths
    /\ WellFormed(files[path])

\* C16: on an initialized Vault get(id), find(keyword) and list() never end in
\* an error, whatever the catalog and the backend hold; get(id) returns null
\* when the file of the entry of id is missing, cannot be read or does not
\* decode.
C16_ReadsNeverThrow ==
    (initialized /\ last.op \in {"get", "find", "list"})
    => /\ last.res # JError
       /\ (/\ last.op = "get"
           /\ MapHas(records, last.arg)
           /\ ~Loads(MapGet(records, last.arg).filename, last.data))
          => last.res = JNull

C16_Witness ==
    /\ initialized
    /\ last.op = "get" /\ last.res = JNull
    /\ MapHas(records, last.arg)
    /\ MapGet(records, last.arg).filename \in DOMAIN files
    /\ WellFormed(files[MapGet(records, last.arg).filename])
    /\ MapGet(records, last.arg).filename \in last.data.paths
    /\ files[MapGet(records, last.arg).filename].data = DataBob

C18_WriteFailureChangesNothing ==
    [][(last'.op = "save" /\ fault' = "write" /\ nSaves' = nSaves + 1)
       => /\ last'.res = JError
          /\ UNCHANGED <<records, searchIndexes, files, dirs>>
          /\ \A id \in Ids :
                Vault_get_value(records', files', id) = Vault_get_value(records, files, id)]_vars

C18_Witness ==
    /\ mut.op = "save" /\ fault = "write" /\ mut.res = JError
    /\ mut.data = DataBob
    /\ MapHas(records, mut.arg)
    /\ last.op = "get" /\ last.arg = mut.arg /\ last.data.paths = {}
    /\ last.res = DataAlice

\* C19: when save has written the record file and the write of the catalog
\* file then fails, save ends in an error and nothing is rolled back: the new
\* record file is on the backend, the in-memory catalog maps id to the new
\* file, the catalog file does not, and so the two catalogs differ.
C19_IndexFailureNotRolledBack ==
    (mut.op = "save" /\ fault = "index")
    => /\ mut.res = JError
       /\ mut.file \in DOMAIN files
       /\ MapHas(records, mut.arg)
       /\ MapGet(records, mut.arg).filename = mut.file
       /\ ~(/\ IndexFilePath \in DOMAIN files
            /\ \E i \in 1..Len(files[IndexFilePath].records) :
                  /\ files[IndexFilePath].records[i].id = mut.arg
                  /\ files[IndexFilePath].records[i].filename = mut.file)

\* What a Vault created on this backend has in its catalog after init().
ReopenedRecords == loadIndex(IndexerState(<<>>, <<>>, files, dirs), "file").records

C25_StatsCountsIds ==
    (last.op = "stats" /\ last.res # JError)
    => Member(last.res.o, "totalRecords") = JNum(Cardinality(IdsOf(records)))

C25_Witness ==
    /\ last.op = "stats" /\ last.res # JError
    /\ Member(last.res.o, "totalRecords") = JNum(1)
    /\ prevMut.op = "save" /\ prevMut.res # JError
    /\ mut.op = "save" /\ mut.res # JError /\ mut.arg = prevMut.arg
    /\ mut.file # prevMut.file
\* C26: Vault.list() and Vault.stats(), and get, find and query of the
\* Indexer, call the backend for no record file and write nothing: the
\* entries, the search terms and every file and directory of the backend
\* are as before the call; list() returns every entry of the catalog, also
\* one whose record file is missing.
C26_ReadsChangeNothing ==
    [][(last'.op \in {"list", "stats", "get", "find", "query"})
       => /\ UNCHANGED <<records, searchIndexes, files, dirs, io>>
          /\ (last'.op = "list" /\ initialized)
                => /\ last'.res # JError
                   /\ Listed(last'.res) = IdsOf(records)
                   /\ Len(last'.res.a) = Len(records)]_vars

C26_Witness ==
    /\ initialized
    /\ last.op = "list"
    /\ Len(last.res.a) = 2
    /\ \E i \in 1..Len(records) : records[i].filename \notin DOMAIN files

\* C27: when init() has completed on a path that had no catalog file, the
\* catalog file .index.json has been written, so Indexer.exists() is true in
\* 'file' mode before any record is saved.
C27_InitWritesCatalog ==
    (mut.op = "init" /\ mut.res # JError /\ initialized)
    => /\ fsExists(files, IndexFilePath)
       /\ Indexer_exists(Cur, storage)

(***************************************************************************)
(* Claims about the search terms, checked under SpecCatalog.               *)
(***************************************************************************)
TermsOf(recs) ==
    UNION {{extractSearchTerms(recs[i].metadata)[n] :
               n \in 1..Len(extractSearchTerms(recs[i].metadata))} : i \in 1..Len(recs)}

ExactTerms(searchIdx, recs) ==
    /\ {searchIdx[n] : n \in 1..Len(searchIdx)} = TermsOf(recs)
    /\ \A m, n \in 1..Len(searchIdx) : searchIdx[m] = searchIdx[n] => m = n

\* C28: in every reachable state the search term list holds exactly the
\* distinct terms extracted from the metadata of the entries now in the
\* catalog: none missing, none twice, none left over from an entry that was
\* overwritten or removed.
C28_TermsMatchEntries == ExactTerms(searchIndexes, records)

\* C29: after remove(id) of an id that was present, the search term list
\* holds exactly the terms extracted from the remaining entries.
C29_RemoveRebuildsTerms ==
    [][(last'.op = "remove" /\ mut' = last' /\ prevMut' = mut /\ MapHas(records, last'.arg))
       => /\ ~MapHas(records', last'.arg)
          /\ ExactTerms(searchIndexes', records')]_vars

C29_Witness ==
    /\ mut.op = "remove"
    /\ prevMut.op = "add" /\ prevMut.arg = mut.arg /\ prevMut.data = JObj(CatMetaNested)
    /\ Len(records) = 1
    /\ records[1].metadata = CatMetaFlat
    /\ searchIndexes # <<>>

\* C30: remove(id) of an id that is not in the catalog reports success and
\* leaves the entries and the search term list as they were.
C30_RemoveAbsent ==
    [][(last'.op = "remove" /\ mut' = last' /\ prevMut' = mut /\ ~MapHas(records, last'.arg))
       => /\ last'.res = JSuccess
          /\ UNCHANGED <<records, searchIndexes>>]_vars

C30_Witness ==
    /\ mut.op = "remove" /\ mut.res = JSuccess
    /\ prevMut.op = "add" /\ prevMut.arg # mut.arg
    /\ Len(records) = 1 /\ records[1].id = prevMut.arg
    /\ searchIndexes # <<>>

(***************************************************************************)
(* Claims about the record codec, checked under SpecCodec and              *)
(* SpecTampered.                                                           *)
(***************************************************************************)
\* C23: the codec round trip.  A File written and read back, and its JSON
\* text decoded by fromJSON, gives the data and the metadata it was created
\* with, whatever they are; and for each transport encoding, decoding the
\* encoding of a string gives that string, whatever the string.
C23_CodecRoundTrip ==
    /\ (last.op = "read") =>
          /\ last.res = [isSuccess |-> TRUE, value |-> last.data.data]
          /\ LET content == File_fromJSON(File_toJSON(last.arg, last.data.data,
                                                      last.data.metadata))
             IN /\ content.data = last.data.data
                /\ content.metadata = last.data.metadata
    /\ (last.op = "decode") => last.res = last.data

\* C24: a record file whose embedded id is not the id it is read for, or
\* whose stored checksum is not the checksum of its data, reads successfully
\* with the stored data, and get(id) returns that data.
C24_LenientDecoding ==
    \A id \in IdsOf(records) :
        LET recordFile == MapGet(records, id).filename
        IN (/\ fsExists(files, recordFile)
            /\ WellFormed(files[recordFile])
            /\ \/ files[recordFile].id # id
               \/ files[recordFile].checksum # checksum(files[recordFile].data))
           => /\ File_read(files, recordFile)
                    = [isSuccess |-> TRUE, value |-> files[recordFile].data]
              /\ (last.op = "get" /\ last.arg = id /\ initialized)
                    => last.res = files[recordFile].data

(***************************************************************************)
(* Claims about concurrent saves, checked under SpecConcurrent.            *)
(***************************************************************************)
\* C21: when two saves of one id have run concurrently and both have
\* returned, the catalog has exactly one entry for the id, the entry names
\* the file of the save whose catalog add came last, get(id) returns that
\* save's data, and the other save's record file is still on the backend,
\* named by no entry.
C21_LastAddWins ==
    \A slot \in 1..2 :
        LET mine == inflight[slot]
            other == inflight[3 - slot]
        IN (/\ mine.pc = "done" /\ other.pc = "done"
            /\ ~mine.threw /\ ~other.threw
            /\ mine.overlapped
            /\ mine.id = other.id
            /\ (3 - slot) \in mine.addedAfter)
           => /\ Cardinality(EntriesFor(records, mine.id)) = 1
              /\ MapGet(records, mine.id).filename = mine.filepath
              /\ Vault_get_value(records, files, mine.id) = mine.data
              /\ fsExists(files, other.filepath)
              /\ other.filepath \notin FilenamesOf(records)

(***************************************************************************)
(* Claims about two instances on one path, checked under SpecTwo.          *)
(***************************************************************************)
\* C22: after a mutation by one of two Vaults opened on the same path, the
\* catalog file is the full snapshot of that Vault's own catalog: an entry
\* that only the other Vault's catalog holds is not in the file, and is not
\* in the catalog of a Vault initialized from the file afterwards.
C22_LastWriterWins ==
    (\/ mut.op = "save" /\ mut.res # JError
     \/ mut.op = "delete" /\ mut.res = JBool(TRUE))
    => /\ fsExists(files, IndexFilePath)
       /\ files[IndexFilePath].records = [i \in 1..Len(records) |-> RecordJSON(records[i])]
       /\ files[IndexFilePath].searchIndexes = searchIndexes
       /\ \A id \in IdsOf(peer.records) \ IdsOf(records) :
             /\ id \notin IdsOf(files[IndexFilePath].records)
             /\ id \notin IdsOf(ReopenedRecords)

C22_Witness ==
    /\ mut.op = "save" /\ mut.arg = "alice" /\ mut.res # JError
    /\ peer.initialized /\ peer.io
    /\ IdsOf(records) = {"alice"}
    /\ IdsOf(peer.records) = {"bob"}
    /\ nSaves = 2
    /\ FilenamesOf(peer.records) \subseteq DOMAIN files
    /\ IdsOf(ReopenedRecords) = {"alice"}

C32_WriteBeforeAdd ==
    \A slot \in 1..2 :
        (/\ inflight[slot].pc \in {"write", "add", "index", "persist", "done"}
         /\ ~inflight[slot].threw
         /\ MapHas(records, inflight[slot].id)
         /\ MapGet(records, inflight[slot].id).filename = inflight[slot].filepath)
        => fsExists(files, inflight[slot].filepath)

C32_Witness ==
    /\ inflight[1].pc = "index"
    /\ inflight[2].pc = "idle"
    /\ MapHas(records, inflight[1].id)
    /\ MapGet(records, inflight[1].id).filename = inflight[1].filepath
    /\ fsExists(files, inflight[1].filepath)
    /\ ~fsExists(files, IndexFilePath)

\* C33: the filename a save generates is not derived from the id.  It is
\* determined by the clock value, the random suffix and metadata.type (the
\* format is fixed by the configuration), so two saves that differ only in
\* their id generate the same filename.
C33_FilenameNotFromId ==
    (/\ inflight[1].pc # "idle" /\ inflight[2].pc # "idle"
     /\ ~inflight[1].threw /\ ~inflight[2].threw
     /\ inflight[1].timestamp = inflight[2].timestamp
     /\ inflight[1].random = inflight[2].random
     /\ Member(inflight[1].metadata, "type") = Member(inflight[2].metadata, "type"))
    => inflight[1].filepath = inflight[2].filepath

C33_Witness ==
    /\ inflight[1].pc = "done" /\ inflight[2].pc = "done"
    /\ ~inflight[1].threw /\ ~inflight[2].threw
    /\ inflight[1].id # inflight[2].id
    /\ inflight[1].data = inflight[2].data
    /\ inflight[1].metadata = inflight[2].metadata
    /\ inflight[1].timestamp = inflight[2].timestamp
    /\ inflight[1].random = inflight[2].random
    /\ inflight[1].filepath = inflight[2].filepath

\* C38: once two overlapping saves of different ids have both completed, the
\* catalog file holds exactly the entries of the in-memory catalog, whatever
\* the order in which the backend completed the overlapping catalog writes.
C38_CatalogFileComplete ==
    (/\ inflight[1].pc = "done" /\ inflight[2].pc = "done"
     /\ ~inflight[1].threw /\ ~inflight[2].threw
     /\ inflight[1].id # inflight[2].id)
    => /\ fsExists(files, IndexFilePath)
       /\ files[IndexFilePath].records = [i \in 1..Len(records) |-> RecordJSON(records[i])]

(***************************************************************************)
(* Further claims about save and delete, one call at a time, checked under *)
(* Spec.                                                                   *)
(***************************************************************************)
\* C35: with calls issued one at a time on a backend that does not fail,
\* every catalog entry names an existing file that decodes to the data last
\* saved under its id, as long as generated filenames are all distinct.
\* Stated step by step from the empty catalog: from a state where the
\* entries name distinct readable files, a save whose filename no entry
\* names leaves its id mapped to a file that decodes to the data just saved,
\* every step leaves each other entry with the same file and the same
\* decoded content, and the entries again name distinct readable files.
C35_EntriesNameTheirData ==
    [][(/\ Cardinality(FilenamesOf(records)) = Len(records)
        /\ \A id \in IdsOf(records) : File_read(files, MapGet(records, id).filename).isSuccess
        /\ last'.op = "save" /\ last'.res # JError => last'.file \notin FilenamesOf(records))
       => /\ Cardinality(FilenamesOf(records')) = Len(records')
          /\ \A id \in IdsOf(records') :
                File_read(files', MapGet(records', id).filename).isSuccess
          /\ (last'.op = "save" /\ last'.res # JError)
             => /\ MapHas(records', last'.arg)
                /\ MapGet(records', last'.arg).filename = last'.file
                /\ File_read(files', last'.file) = [isSuccess |-> TRUE, value |-> last'.data]
          /\ \A id \in IdsOf(records') :
                (last'.op = "save" /\ last'.res # JError => id # last'.arg)
                => /\ MapHas(records, id)
                   /\ MapGet(records', id).filename = MapGet(records, id).filename
                   /\ File_read(files', MapGet(records', id).filename)
                        = File_read(files, MapGet(records, id).filename)]_vars

C35_Witness ==
    /\ prevMut.op = "save" /\ prevMut.arg = "alice" /\ prevMut.data = DataZero
    /\ mut.op = "save" /\ mut.arg = "bob" /\ mut.data = DataAlice
    /\ mut.file # prevMut.file
    /\ IdsOf(records) = {"alice", "bob"}
    /\ File_read(files, MapGet(records, "alice").filename).value = DataZero
    /\ File_read(files, MapGet(records, "bob").filename).value = DataAlice

\* C36: a completed save(id1) or delete(id1) does not change what get(id2)
\* returns for any other id2.
C36_OtherIdsUntouched ==
    [][(/\ last'.op \in {"save", "delete"}
        /\ last'.res # JError)
       => \A id2 \in Ids \ {last'.arg} :
             Vault_get_value(records', files', id2) = Vault_get_value(records, files, id2)]_vars

(***************************************************************************)
(* Further claims about failing backend calls, checked under SpecFaults.   *)
(***************************************************************************)
\* C37: when the deletion of the record file fails during delete(id), the
\* call returns false and changes nothing: the entry stays in the in-memory
\* catalog, the catalog file and every other file are as before, and get(id)
\* returns what it returned before the call.
C37_FailedUnlinkChangesNothing ==
    [][(last'.op = "delete" /\ fault' = "deleteFile")
       => /\ last'.res = JBool(FALSE)
          /\ MapHas(records', last'.arg)
          /\ records' = records
          /\ searchIndexes' = searchIndexes
          /\ files' = files
          /\ Vault_get_value(records', files', last'.arg)
               = Vault_get_value(records, files, last'.arg)]_vars

C37_Witness ==
    /\ last.op = "delete" /\ fault = "deleteFile" /\ last.res = JBool(FALSE)
    /\ prevMut.op = "save" /\ prevMut.res = JUndefined /\ prevMut.arg = last.arg
    /\ MapHas(records, last.arg)
    /\ MapGet(records, last.arg).filename = prevMut.file
    /\ fsExists(files, prevMut.file)
    /\ MapHas(ReopenedRecords, last.arg)

(***************************************************************************)
(* Claims about overlapping deletes, checked under SpecRace.               *)
(***************************************************************************)
\* C39: of two overlapping delete(id) calls for the same saved id, whose
\* record file was on the backend when the first of them read the catalog,
\* both completed, exactly one has returned true and the other false.
C39_OneDeleteWins ==
    (/\ inflight[1].pc = "done" /\ inflight[2].pc = "done"
     /\ ~inflight[1].threw /\ ~inflight[2].threw
     /\ "res" \in DOMAIN inflight[1] /\ "res" \in DOMAIN inflight[2]
     /\ inflight[1].id = inflight[2].id
     /\ (inflight[1].present \/ inflight[2].present))
    => \/ inflight[1].res = JBool(TRUE) /\ inflight[2].res = JBool(FALSE)
       \/ inflight[1].res = JBool(FALSE) /\ inflight[2].res = JBool(TRUE)

(***************************************************************************)
(* Further claims about Vault.init, checked under SpecInit.                *)
(***************************************************************************)
\* C40: init() is idempotent, called again after or while another init()
\* runs: once the calls have completed on a catalog file that an earlier
\* Vault left and no save has rewritten, the catalog holds the entries of
\* the file and the search terms of the file, each term once, as after a
\* single init().
C40_InitIdempotent ==
    (/\ initialized /\ indexLoaded
     /\ initPc[1] = "idle" /\ initPc[2] = "idle"
     /\ last.op = "init" /\ last.res = JUndefined
     /\ nSaves = 0
     /\ \E id \in Ids : /\ fsExists(files, IndexFilePath)
                         /\ files[IndexFilePath] = EarlierVault(id, TRUE).files[IndexFilePath])
    => /\ records = ReopenedRecords
       /\ searchIndexes = files[IndexFilePath].searchIndexes

(***************************************************************************)
(* Claims about termination, checked under SpecLive.                       *)
(***************************************************************************)
\* C34: provided every backend call returns in the end, every init, save
\* and delete in progress completes, whatever other calls are in progress
\* (no call waits for a lock or for another call).  get, find, list and
\* stats complete in the step that runs them.
C34_EveryCallCompletes ==
    /\ \A slot \in 1..2 :
          (inflight[slot].pc \notin {"idle", "done"}) ~> (inflight[slot].pc = "done")
    /\ \A call \in 1..2 : (initPc[call] # "idle") ~> (initPc[call] = "idle")

C34_Witness ==
    /\ initialized
    /\ inflight[1].pc = "done" /\ inflight[2].pc = "done"
    /\ "filepath" \in DOMAIN inflight[1] /\ inflight[1].overlapped
    /\ "filename" \in DOMAIN inflight[2] /\ inflight[2].res = JBool(TRUE)
    /\ initPc[1] = "idle" /\ initPc[2] = "idle"
    /\ last.op = "stats" /\ last.res # JError

====
